---- MODULE Spec2Model ----
(***************************************************************************)
(* Alert pipeline of the EAP repository: the alert lifecycle API           *)
(* (apps/api/routers/alerts.py), the notification dispatcher               *)
(* (jobs/notify/job.py, jobs/notifications/job.py), the anomaly detection  *)
(* run with its five methods and rule lookup (jobs/anomaly/job.py), the    *)
(* scheduler's run_all (apps/scheduler/app.py, jobs/metrics/job.py) and    *)
(* the event insert of the ingestion API (apps/api/crud.py).               *)
(*                                                                         *)
(* Specifications: SpecLifecycle (one request at a time), SpecSessions     *)
(* (concurrent requests), SpecDispatch (dispatch calls), SpecNotify (the   *)
(* notify job's run), SpecDetect (detection runs, possibly overlapping),   *)
(* SpecScheduler (run_all), SpecIngest (insert_event_raw), SpecWorkers     *)
(* (overlapping dispatch calls repeated for ever) and SpecOps (lifecycle   *)
(* requests beside dispatch calls).                                        *)
(*                                                                         *)
(* A nullable column is an option: None is SQL NULL, Some(x) a value.      *)
(* NOW() is the logical clock `clock`; it advances on every request, run   *)
(* and dispatch call, so two operations never share a timestamp.           *)
(***************************************************************************)
EXTENDS Integers, Sequences, FiniteSets, TLC

VARIABLES alerts, notifications, clock, response, call, sends, attempts,
          lost, emailRaw, webhookRaw, det, runs, sessions, job, series, rules,
          events_raw, ins, workers, delivery

vars == <<alerts, notifications, clock, response, call, sends, attempts,
          lost, emailRaw, webhookRaw, det, runs, sessions, job, series, rules,
          events_raw, ins, workers, delivery>>

\* ------------------------------------------------------------------ bounds
MaxAlerts == 2
MaxClock == 4
MaxLimit == 2
MaxRuns == 2
MaxSessions == 2
MaxRunners == 2

\* ----------------------------------------------------------------- options
None == <<>>
Some(x) == <<x>>
Coalesce(a, b) == IF a = None THEN b ELSE a

SeqToSet(s) == {s[i] : i \in 1..Len(s)}

\* ------------------------------------------------------ exact arithmetic
\* The statistics of the detection methods are compared exactly, as
\* products of integers.  The products exceed the machine integers of the
\* checker, so they are kept as sequences of base-10000 digits, least
\* significant first.
Base == 10000

Abs(x) == IF x < 0 THEN 0 - x ELSE x

RECURSIVE BigNat(_)
BigNat(n) == IF n < Base THEN <<n>> ELSE <<n % Base>> \o BigNat(n \div Base)

RECURSIVE Carry(_, _)
Carry(s, c) ==
    IF s = <<>> THEN (IF c = 0 THEN <<>> ELSE BigNat(c))
    ELSE LET t == Head(s) + c
         IN  <<t % Base>> \o Carry(Tail(s), t \div Base)

RECURSIVE Trim(_)
Trim(a) ==
    IF Len(a) > 1 /\ a[Len(a)] = 0 THEN Trim(SubSeq(a, 1, Len(a) - 1)) ELSE a

Digit(a, i) == IF i \in DOMAIN a THEN a[i] ELSE 0

BigAdd(a, b) ==
    LET n == IF Len(a) > Len(b) THEN Len(a) ELSE Len(b)
    IN  Trim(Carry([i \in 1..n |-> Digit(a, i) + Digit(b, i)], 0))

RECURSIVE Column(_, _, _, _)
Column(a, b, k, i) ==
    IF i > Len(a) THEN 0
    ELSE a[i] * Digit(b, k + 1 - i) + Column(a, b, k, i + 1)

BigMul(a, b) ==
    Trim(Carry([k \in 1..(Len(a) + Len(b) - 1) |-> Column(a, b, k, 1)], 0))

RECURSIVE BigProd(_)
BigProd(factors) ==
    IF factors = <<>> THEN <<1>>
    ELSE BigMul(Head(factors), BigProd(Tail(factors)))

\* a < b, a and b trimmed
RECURSIVE BigLessFrom(_, _, _)
BigLessFrom(a, b, i) ==
    IF i = 0 THEN FALSE
    ELSE IF a[i] # b[i] THEN a[i] < b[i]
    ELSE BigLessFrom(a, b, i - 1)

BigLess(a, b) ==
    IF Len(a) # Len(b) THEN Len(a) < Len(b) ELSE BigLessFrom(a, b, Len(a))

BigGeq(a, b) == ~BigLess(a, b)

\* |a - b|
RECURSIVE Borrow(_, _, _, _)
Borrow(a, b, i, c) ==
    IF i > Len(a) THEN <<>>
    ELSE LET t == a[i] - Digit(b, i) - c
         IN  IF t < 0 THEN <<t + Base>> \o Borrow(a, b, i + 1, 1)
             ELSE <<t>> \o Borrow(a, b, i + 1, 0)

BigDiff(a, b) ==
    IF BigLess(a, b) THEN Trim(Borrow(b, a, 1, 0)) ELSE Trim(Borrow(a, b, 1, 0))

\* ------------------------------------------------------------ alert rows
Actors == {"ops-user", "sec-user"}

Metrics == <<"tx_fail_rate", "latency_p95_ms", "tx_completed", "dau">>

\* context.method of the five maybe_insert_* functions, in call order.
Methods ==
    <<"z_score", "ewma", "change_point", "seasonal_decomposition", "regime_shift">>

\* The date the detection runs of one day work on (yesterday's date).
TargetDate == 35

lookback_days == 30

EWMA_LAMBDA == <<3, 10>>
EWMA_LIMIT == 3
CHANGE_POINT_WINDOW == 7
CHANGE_POINT_Z == 3
SEASONAL_MIN_POINTS == 3
SEASONAL_Z == 3
REGIME_RECENT_DAYS == 7
REGIME_BASELINE_DAYS == 14
REGIME_Z == 3
REGIME_VAR_RATIO == 2

\* The row insert_alert writes: status, acked_* and resolved_* are left to
\* the table defaults (OPEN, NULL), ts to NOW().
NewAlert(metric, metric_date, method, severity, rule_version, ts, run) ==
    [ts |-> ts, metric |-> metric, metric_date |-> metric_date,
     method |-> method, severity |-> severity,
     rule_version |-> rule_version, run |-> run,
     status |-> "OPEN", acked_by |-> None, acked_at |-> None,
     resolved_by |-> None, resolved_at |-> None]

\* Alert tables left by earlier detection runs: n OPEN alerts, ids in insert
\* order, alerts of one run sharing the run's timestamp.
TsSeqs(n) ==
    {s \in [1..n -> 1..n] :
        /\ s[1] = 1
        /\ \A i \in 1..(n - 1) : s[i + 1] \in {s[i], s[i] + 1}}

InitAlertTables ==
    UNION {{[i \in 1..n |-> NewAlert(Metrics[1], TargetDate, Methods[1], "WARN",
                                      "v1", s[i], s[i])] :
                s \in TsSeqs(n)} : n \in 1..MaxAlerts}

\* ------------------------------------------------------------------ roles
ROLE_RANK == [reader |-> 0, operator |-> 1, admin |-> 2]

RoleHeaders ==
    {None, Some("reader"), Some("operator"), Some("Operator"), Some("admin"),
     Some("root")}

\* str.strip().lower() on the header values above.
Lower(s) == IF s = "Operator" THEN "operator" ELSE s

\* require_role(required)._check: the status it raises, or 200.
RequireRoleKnownOnly(required, header) ==
    LET normalized == Lower(IF header = None THEN "reader" ELSE header[1])
    IN  IF normalized \notin DOMAIN ROLE_RANK THEN 403 ELSE 200

RequireRole(required, header) ==
    LET normalized == Lower(IF header = None THEN "reader" ELSE header[1])
    IN  IF normalized \notin DOMAIN ROLE_RANK THEN 403
        ELSE IF ROLE_RANK[normalized] < ROLE_RANK[required] THEN 403
        ELSE 200

\* -------------------------------------------------------------- lifecycle
\* The SET clause of acknowledge_alert's UPDATE.
AckRow(row, actor, now) ==
    [row EXCEPT !.status = "ACK",
                !.acked_by = Some(actor),
                !.acked_at = Coalesce(row.acked_at, Some(now))]

\* The SET clause of resolve_alert's UPDATE.
ResolveRowOverwriteAck(row, actor, now) ==
    [row EXCEPT !.status = "RESOLVED",
                !.resolved_by = Some(actor),
                !.resolved_at = Coalesce(row.resolved_at, Some(now)),
                !.acked_by = Some(actor),
                !.acked_at = Some(now)]

ResolveRowNoBackfill(row, actor, now) ==
    [row EXCEPT !.status = "RESOLVED",
                !.resolved_by = Some(actor),
                !.resolved_at = Coalesce(row.resolved_at, Some(now))]

ResolveRow(row, actor, now) ==
    [row EXCEPT !.status = "RESOLVED",
                !.resolved_by = Some(actor),
                !.resolved_at = Coalesce(row.resolved_at, Some(now)),
                !.acked_by = Coalesce(row.acked_by, Some(actor)),
                !.acked_at = Coalesce(row.acked_at, Some(now))]

Respond(op, id, actor, code, now) ==
    [op |-> op, alert_id |-> id, actor |-> actor, code |-> code, at |-> now]

\* The response together with the X-Role header of its request.
WithRole(r, header) ==
    [op |-> r.op, alert_id |-> r.alert_id, actor |-> r.actor, code |-> r.code,
     at |-> r.at, role |-> header]

LifecycleFrame ==
    UNCHANGED <<notifications, call, sends, attempts, lost, emailRaw,
                webhookRaw, det, runs, sessions, job, series, rules,
                events_raw, ins, workers, delivery>>

\* POST /alerts/{alert_id}/ack
\* (AckWithoutWhere: the UPDATE without its WHERE alert_id = :alert_id.)
AckWithoutWhere(id, actor, header) ==
    /\ clock < MaxClock
    /\ clock' = clock + 1
    /\ LET auth == RequireRole("operator", header)
       IN  IF auth # 200
           THEN /\ response' = WithRole(Respond("ack", id, actor, auth, clock'), header)
                /\ UNCHANGED alerts
           ELSE IF alerts = <<>>
           THEN /\ response' = WithRole(Respond("ack", id, actor, 404, clock'), header)
                /\ UNCHANGED alerts
           ELSE /\ alerts' = [i \in DOMAIN alerts |-> AckRow(alerts[i], actor, clock')]
                /\ response' = WithRole(Respond("ack", id, actor, 200, clock'), header)
    /\ LifecycleFrame

acknowledge_alert(id, actor, header) ==
    /\ clock < MaxClock
    /\ clock' = clock + 1
    /\ LET auth == RequireRole("operator", header)
       IN  IF auth # 200
           THEN /\ response' = WithRole(Respond("ack", id, actor, auth, clock'), header)
                /\ UNCHANGED alerts
           ELSE IF id \notin DOMAIN alerts
           THEN /\ response' = WithRole(Respond("ack", id, actor, 404, clock'), header)
                /\ UNCHANGED alerts
           ELSE /\ alerts' = [alerts EXCEPT ![id] = AckRow(@, actor, clock')]
                /\ response' = WithRole(Respond("ack", id, actor, 200, clock'), header)
    /\ LifecycleFrame

\* POST /alerts/{alert_id}/resolve
resolve_alert(id, actor, header) ==
    /\ clock < MaxClock
    /\ clock' = clock + 1
    /\ LET auth == RequireRole("operator", header)
       IN  IF auth # 200
           THEN /\ response' = WithRole(Respond("resolve", id, actor, auth, clock'), header)
                /\ UNCHANGED alerts
           ELSE IF id \notin DOMAIN alerts
           THEN /\ response' = WithRole(Respond("resolve", id, actor, 404, clock'), header)
                /\ UNCHANGED alerts
           ELSE /\ alerts' = [alerts EXCEPT ![id] = ResolveRow(@, actor, clock')]
                /\ response' = WithRole(Respond("resolve", id, actor, 200, clock'), header)
    /\ LifecycleFrame

NoResponse == [op |-> "none", alert_id |-> 0, actor |-> "", code |-> 0, at |-> 0]

IdleCall ==
    [pc |-> "idle", channel |-> "", target |-> "", rest |-> <<>>,
     selected |-> <<>>, queue |-> <<>>, tried |-> <<>>, writes |-> <<>>,
     ok |-> {}, sent |-> 0, limit |-> 0, now |-> 0]

\* The processes that may execute the detection run, and one that is not
\* executing it.
Runners == 1..MaxRunners

IdleRun ==
    [pc |-> "idle", idx |-> 0, pending |-> <<>>, run |-> 0, now |-> 0,
     rule_config |-> <<>>, txn |-> "none"]

IdleDet == [p \in Runners |-> IdleRun]

\* A request handler (session) between requests.
Sessions == 1..MaxSessions

IdleSession ==
    [pc |-> "idle", op |-> "none", alert_id |-> 0, actor |-> "", now |-> 0,
     row |-> None]

IdleSessions == [s \in Sessions |-> IdleSession]

\* A batch entry point (run_all, notify run) that is not running.
IdleJob == [pc |-> "idle", calls |-> <<>>]

\* The tables and processes a specification does not exercise.
NoLifecycle == sessions = IdleSessions
NoJob == job = IdleJob
NoMetrics == series = <<>> /\ rules = None
NoIngest == events_raw = {} /\ ins = <<>>
NoPeers == workers = <<>> /\ delivery = <<>>

InitLifecycle ==
    /\ alerts \in InitAlertTables
    /\ clock = alerts[Len(alerts)].ts
    /\ notifications = <<>>
    /\ response = NoResponse
    /\ call = IdleCall
    /\ sends = <<>>
    /\ attempts = <<>>
    /\ lost = <<>>
    /\ emailRaw = None
    /\ webhookRaw = None
    /\ det = IdleDet
    /\ runs = <<>>
    /\ NoLifecycle /\ NoJob /\ NoMetrics /\ NoIngest /\ NoPeers

NextLifecycle ==
    \E id \in 1..(MaxAlerts + 1), actor \in Actors, header \in RoleHeaders :
        \/ acknowledge_alert(id, actor, header)
        \/ resolve_alert(id, actor, header)

SpecLifecycle == InitLifecycle /\ [][NextLifecycle]_vars

\* ------------------------------------------------- concurrent lifecycle
\* Requests served at the same time, each in its own database session
\* (get_db): the handler's one UPDATE takes the row lock of the alert and
\* holds it until db.commit(); an UPDATE of a locked row waits and then
\* works on the committed row (READ COMMITTED).  NOW() is the start of the
\* session's transaction, which is the moment its UPDATE is issued.
SessionFrame ==
    UNCHANGED <<notifications, call, sends, attempts, lost, emailRaw,
                webhookRaw, det, runs, job, series, rules,
                events_raw, ins, workers, delivery>>

Locked(id) ==
    \E t \in Sessions : sessions[t].pc = "updated" /\ sessions[t].alert_id = id

\* The request arrives: the role check, then the UPDATE is issued.
SessionBegin(s, op, id, actor, header) ==
    /\ sessions[s].pc = "idle"
    /\ clock < MaxClock
    /\ clock' = clock + 1
    /\ LET auth == RequireRole("operator", header)
       IN  IF auth # 200
           THEN /\ response' = WithRole(Respond(op, id, actor, auth, clock'), header)
                /\ UNCHANGED sessions
           ELSE /\ sessions' = [sessions EXCEPT ![s] =
                        [pc |-> "issued", op |-> op, alert_id |-> id,
                         actor |-> actor, now |-> clock', row |-> None]]
                /\ UNCHANGED response
    /\ UNCHANGED alerts
    /\ SessionFrame

\* The UPDATE runs once the row is not locked by another session: no row
\* matches (404, the session ends without a commit), or the row is rewritten
\* inside the session's transaction.
SessionUpdate(s) ==
    LET c == sessions[s]
    IN  /\ c.pc = "issued"
        /\ ~Locked(c.alert_id)
        /\ IF c.alert_id \notin DOMAIN alerts
           THEN /\ response' = WithRole(Respond(c.op, c.alert_id, c.actor, 404, c.now),
                                        Some("operator"))
                /\ sessions' = [sessions EXCEPT ![s] = IdleSession]
           ELSE /\ sessions' = [sessions EXCEPT ![s] =
                        [c EXCEPT !.pc = "updated",
                                  !.row = Some(IF c.op = "ack"
                                               THEN AckRow(alerts[c.alert_id], c.actor, c.now)
                                               ELSE ResolveRow(alerts[c.alert_id], c.actor, c.now))]]
                /\ UNCHANGED response
        /\ UNCHANGED <<alerts, clock>>
        /\ SessionFrame

\* db.commit(): the rewritten row becomes visible and the lock is released.
SessionCommit(s) ==
    LET c == sessions[s]
    IN  /\ c.pc = "updated"
        /\ alerts' = [alerts EXCEPT ![c.alert_id] = c.row[1]]
        /\ response' = WithRole(Respond(c.op, c.alert_id, c.actor, 200, c.now),
                                Some("operator"))
        /\ sessions' = [sessions EXCEPT ![s] = IdleSession]
        /\ UNCHANGED clock
        /\ SessionFrame

InitSessions == InitLifecycle

NextSessions ==
    \/ \E s \in Sessions, op \in {"ack", "resolve"}, id \in 1..(MaxAlerts + 1),
          actor \in Actors, header \in {Some("reader"), Some("operator")} :
            SessionBegin(s, op, id, actor, header)
    \/ \E s \in Sessions : SessionUpdate(s)
    \/ \E s \in Sessions : SessionCommit(s)

SpecSessions == InitSessions /\ [][NextSessions]_vars

\* ------------------------------------------------------------ dispatcher
\* ALERT_EMAIL_TO / ALERT_WEBHOOK_URLS: unset (None) or the pieces between
\* the commas of the value.
\* The pairs <<ALERT_EMAIL_TO, ALERT_WEBHOOK_URLS>> a deployment is run with.
Configs ==
    {<<None, None>>,
     <<Some(<<" ">>), Some(<<"", " ">>)>>,
     <<Some(<<"ops@eap", " sec@eap">>), None>>,
     <<Some(<<"">>), Some(<<"http://u1", " http://u2 ">>)>>,
     <<Some(<<"ops@eap">>), Some(<<"http://u1">>)>>}

\* str.strip() on the pieces above.
Strip(piece) ==
    CASE piece = " " -> ""
      [] piece = " sec@eap" -> "sec@eap"
      [] piece = " http://u2 " -> "http://u2"
      [] OTHER -> piece

\* _parse_recipients
ParseRecipientsKeepBlank(raw) ==
    IF raw = None THEN <<>>
    ELSE [i \in 1..Len(raw[1]) |-> Strip(raw[1][i])]

ParseRecipients(raw) ==
    IF raw = None THEN <<>>
    ELSE LET pieces == raw[1]
             stripped == [i \in 1..Len(pieces) |-> Strip(pieces[i])]
         IN  SelectSeq(stripped, LAMBDA a : a # "")

\* ",".join(recipients)
RECURSIVE Join(_)
Join(recipients) ==
    IF Len(recipients) = 0 THEN ""
    ELSE IF Len(recipients) = 1 THEN recipients[1]
    ELSE recipients[1] \o "," \o Join(Tail(recipients))

Errors == {"connection refused"}

Key(row) == <<row.alert_id, row.channel, row.target>>

\* The VALUES row of _record_notification's INSERT.
NotificationRow(alert_id, channel, target, status, error, now) ==
    [alert_id |-> alert_id, channel |-> channel, target |-> target,
     status |-> status, last_error |-> error,
     sent_at |-> IF status = "sent" THEN Some(now) ELSE None]

\* INSERT ... ON CONFLICT (alert_id, channel, target) DO UPDATE SET ...
UpsertAlwaysInsert(rows, row) == Append(rows, row)

UpsertDoNothing(rows, row) ==
    IF \E i \in DOMAIN rows : Key(rows[i]) = Key(row) THEN rows
    ELSE Append(rows, row)

Upsert(rows, row) ==
    IF \E i \in DOMAIN rows : Key(rows[i]) = Key(row)
    THEN [i \in DOMAIN rows |->
             IF Key(rows[i]) = Key(row)
             THEN [rows[i] EXCEPT !.status = row.status,
                                  !.last_error = row.last_error,
                                  !.sent_at = row.sent_at]
             ELSE rows[i]]
    ELSE Append(rows, row)

\* The rows a transaction sees or commits: the table with the transaction's
\* own upserts applied in order.
RECURSIVE ApplyWrites(_, _)
ApplyWrites(rows, writes) ==
    IF writes = <<>> THEN rows
    ELSE ApplyWrites(Upsert(rows, Head(writes)), Tail(writes))

HasRow(rows, alert_id, channel, target, status) ==
    \E i \in DOMAIN rows :
        /\ Key(rows[i]) = <<alert_id, channel, target>>
        /\ rows[i].status = status

\* WHERE n.notification_id IS NULL after the LEFT JOIN on status = 'sent'.
Pending(rows, channel, target) ==
    {a \in DOMAIN alerts : ~HasRow(rows, a, channel, target, "sent")}

Min(a, b) == IF a < b THEN a ELSE b

\* ORDER BY a.ts ASC LIMIT :limit over a set of alert ids: every result the
\* query may return (alerts of equal ts come in either order).
OrderedNoLimit(ids, limit) ==
    LET n == Cardinality(ids)
    IN  {s \in [1..n -> ids] :
            /\ \A i, j \in 1..n : i # j => s[i] # s[j]
            /\ \A i, j \in 1..n : i < j => alerts[s[i]].ts <= alerts[s[j]].ts}

OrderedLimit(ids, limit) ==
    LET n == Cardinality(ids)
        orders == {s \in [1..n -> ids] :
                      /\ \A i, j \in 1..n : i # j => s[i] # s[j]
                      /\ \A i, j \in 1..n : i < j => alerts[s[i]].ts <= alerts[s[j]].ts}
    IN  {SubSeq(s, 1, Min(limit, n)) : s \in orders}

\* _fetch_pending_alerts / _fetch_pending_email_alerts
FetchPendingAll(rows, channel, target, limit) ==
    OrderedLimit(DOMAIN alerts, limit)

FetchPendingNoRetry(rows, channel, target, limit) ==
    OrderedLimit({a \in DOMAIN alerts :
                     /\ ~HasRow(rows, a, channel, target, "sent")
                     /\ ~HasRow(rows, a, channel, target, "failed")}, limit)

FetchPendingOpenOnly(rows, channel, target, limit) ==
    OrderedLimit({a \in Pending(rows, channel, target) : alerts[a].status = "OPEN"},
                 limit)

_fetch_pending_alerts(rows, channel, target, limit) ==
    OrderedLimit(Pending(rows, channel, target), limit)

Return(op, value, now) ==
    [op |-> op, alert_id |-> 0, actor |-> "", code |-> value, at |-> now]

Bump(f, k) == [f EXCEPT ![k] = @ + 1]

DispatchFrame ==
    UNCHANGED <<alerts, emailRaw, webhookRaw, det, runs, sessions, series, rules,
                events_raw, ins, workers, delivery>>

\* The state of a dispatch call after BEGIN and the first SELECT.
BeginCall(channel, targets, limit, queue, now) ==
    [pc |-> "run", channel |-> channel, target |-> Head(targets),
     rest |-> Tail(targets), selected |-> queue, queue |-> queue,
     tried |-> <<>>, writes |-> <<>>, ok |-> {}, sent |-> 0,
     limit |-> limit, now |-> now]

\* send_email_notifications(limit) up to the first alert of the loop.
StartEmail(limit) ==
    /\ call.pc = "idle"
    /\ clock < MaxClock
    /\ clock' = clock + 1
    /\ LET recipients == ParseRecipients(emailRaw)
       IN  IF recipients = <<>>
           THEN /\ response' = Return("send_email", 0, clock')
                /\ UNCHANGED call
           ELSE /\ \E q \in _fetch_pending_alerts(notifications, "email",
                                                  Join(recipients), limit) :
                      call' = BeginCall("email", <<Join(recipients)>>, limit, q, clock')
                /\ UNCHANGED response
    /\ UNCHANGED <<notifications, sends, attempts, lost>>
    /\ DispatchFrame

\* send_webhook_notifications(limit) up to the first alert of the first target.
StartWebhook(limit) ==
    /\ call.pc = "idle"
    /\ clock < MaxClock
    /\ clock' = clock + 1
    /\ LET targets == ParseRecipients(webhookRaw)
       IN  IF targets = <<>>
           THEN /\ response' = Return("send_webhook", 0, clock')
                /\ UNCHANGED call
           ELSE /\ \E q \in _fetch_pending_alerts(notifications, "webhook",
                                                  Head(targets), limit) :
                      call' = BeginCall("webhook", targets, limit, q, clock')
                /\ UNCHANGED response
    /\ UNCHANGED <<notifications, sends, attempts, lost>>
    /\ DispatchFrame

\* One pass of the loop body whose _record_notification succeeds: the send
\* returned (result "ok") or raised (result the error text).
LoopBodyBreakOnFailure(c, result) ==
    LET a == Head(c.queue)
        status == IF result = "ok" THEN "sent" ELSE "failed"
        error == IF result = "ok" THEN None ELSE Some(result)
    IN  [c EXCEPT
            !.queue = IF result = "ok" THEN Tail(c.queue) ELSE <<>>,
            !.tried = Append(@, [alert_id |-> a, result |-> result]),
            !.writes = Append(@, NotificationRow(a, c.channel, c.target,
                                                 status, error, c.now)),
            !.ok = IF result = "ok" THEN @ \cup {<<a, c.channel, c.target>>} ELSE @,
            !.sent = IF result = "ok" THEN @ + 1 ELSE @]

LoopBody(c, result) ==
    LET a == Head(c.queue)
        status == IF result = "ok" THEN "sent" ELSE "failed"
        error == IF result = "ok" THEN None ELSE Some(result)
    IN  [c EXCEPT
            !.queue = Tail(@),
            !.tried = Append(@, [alert_id |-> a, result |-> result]),
            !.writes = Append(@, NotificationRow(a, c.channel, c.target,
                                                 status, error, c.now)),
            !.ok = IF result = "ok" THEN @ \cup {<<a, c.channel, c.target>>} ELSE @,
            !.sent = IF result = "ok" THEN @ + 1 ELSE @]

Attempt(result) ==
    /\ call.pc = "run"
    /\ call.queue # <<>>
    /\ LET k == <<Head(call.queue), call.channel, call.target>>
       IN  /\ attempts' = Bump(attempts, k)
           /\ sends' = IF result = "ok" THEN Bump(sends, k) ELSE sends
    /\ call' = LoopBody(call, result)
    /\ UNCHANGED <<notifications, clock, response, lost>>
    /\ DispatchFrame

\* (AttemptAbortKeepsRecords: the abort leaves the records written so far.)
AttemptAbortKeepsRecords(result) ==
    /\ call.pc = "run"
    /\ call.queue # <<>>
    /\ LET k == <<Head(call.queue), call.channel, call.target>>
           unrecorded == IF result = "ok" THEN call.ok \cup {k} ELSE call.ok
       IN  /\ attempts' = Bump(attempts, k)
           /\ sends' = IF result = "ok" THEN Bump(sends, k) ELSE sends
           /\ lost' = [t \in DOMAIN lost |->
                          IF t \in unrecorded THEN lost[t] + 1 ELSE lost[t]]
    /\ call' = IdleCall
    /\ response' = Return("send_" \o call.channel \o "_raised", 0, call.now)
    /\ notifications' = ApplyWrites(notifications, call.writes)
    /\ UNCHANGED clock
    /\ DispatchFrame

\* One pass of the loop body whose _record_notification raises (or during
\* which the process dies): the send has happened; the record of a sent
\* outcome raises into the except branch, whose own record raises on the
\* aborted transaction; the exception leaves the with block, which rolls
\* back every record of the call.
AttemptAbort(result) ==
    /\ call.pc = "run"
    /\ call.queue # <<>>
    /\ LET k == <<Head(call.queue), call.channel, call.target>>
           unrecorded == IF result = "ok" THEN call.ok \cup {k} ELSE call.ok
       IN  /\ attempts' = Bump(attempts, k)
           /\ sends' = IF result = "ok" THEN Bump(sends, k) ELSE sends
           /\ lost' = [t \in DOMAIN lost |->
                          IF t \in unrecorded THEN lost[t] + 1 ELSE lost[t]]
    /\ call' = IdleCall
    /\ response' = Return("send_" \o call.channel \o "_raised", 0, call.now)
    /\ UNCHANGED <<notifications, clock>>
    /\ DispatchFrame

\* for target in targets: the SELECT of the next webhook target, inside the
\* same transaction.
NextTarget ==
    /\ call.pc = "run"
    /\ call.queue = <<>>
    /\ call.rest # <<>>
    /\ \E q \in _fetch_pending_alerts(ApplyWrites(notifications, call.writes),
                                      call.channel, Head(call.rest), call.limit) :
          call' = [call EXCEPT !.target = Head(call.rest), !.rest = Tail(call.rest),
                               !.selected = q, !.queue = q, !.tried = <<>>]
    /\ UNCHANGED <<notifications, clock, response, sends, attempts, lost>>
    /\ DispatchFrame

\* The end of the with block commits the call's records; the call returns
\* the number sent.
Commit ==
    /\ call.pc = "run"
    /\ call.queue = <<>>
    /\ call.rest = <<>>
    /\ notifications' = ApplyWrites(notifications, call.writes)
    /\ response' = Return("send_" \o call.channel, call.sent, call.now)
    /\ call' = IdleCall
    /\ UNCHANGED <<clock, sends, attempts, lost>>
    /\ DispatchFrame

Results == {"ok"} \cup Errors

\* Every (alert, channel, target) the configuration can address.
Triples(table, eraw, wraw) ==
    (DOMAIN table) \X
        ({<<"email", Join(ParseRecipients(eraw))>> : x \in {1}}
         \cup {<<"webhook", t>> : t \in SeqToSet(ParseRecipients(wraw))})

TripleKeys(table, eraw, wraw) ==
    {<<t[1], t[2][1], t[2][2]>> : t \in Triples(table, eraw, wraw)}

InitDispatch ==
    /\ alerts \in InitAlertTables
    /\ clock = alerts[Len(alerts)].ts
    /\ notifications = <<>>
    /\ response = NoResponse
    /\ call = IdleCall
    /\ \E cfg \in Configs : emailRaw = cfg[1] /\ webhookRaw = cfg[2]
    /\ sends = [k \in TripleKeys(alerts, emailRaw, webhookRaw) |-> 0]
    /\ attempts = [k \in TripleKeys(alerts, emailRaw, webhookRaw) |-> 0]
    /\ lost = [k \in TripleKeys(alerts, emailRaw, webhookRaw) |-> 0]
    /\ det = IdleDet
    /\ runs = <<>>
    /\ NoLifecycle /\ NoJob /\ NoMetrics /\ NoIngest /\ NoPeers

\* Dispatch calls made directly, outside a run of the notify job.
NextDispatch ==
    \/ UNCHANGED job /\ \E limit \in 1..MaxLimit : StartEmail(limit)
    \/ UNCHANGED job /\ \E limit \in 1..MaxLimit : StartWebhook(limit)
    \/ UNCHANGED job /\ \E result \in Results : Attempt(result)
    \/ UNCHANGED job /\ \E result \in Results : AttemptAbort(result)
    \/ UNCHANGED job /\ NextTarget
    \/ UNCHANGED job /\ Commit

SpecDispatch == InitDispatch /\ [][NextDispatch]_vars

\* ------------------------------------------------------------ notify job
\* The default of send_email_notifications' and send_webhook_notifications'
\* limit parameter, which run() does not override.
DefaultLimit == 50

\* A call run() has made, and what it returned.
Called(fn, returned) == [fn |-> fn, returned |-> returned]

\* run(): send_email_notifications() up to the first alert of its loop, or
\* to its return when ALERT_EMAIL_TO names no recipient.
NotifyEmail ==
    /\ job.pc \in {"idle", "done", "raised"}
    /\ StartEmail(DefaultLimit)
    /\ job' = IF call'.pc = "idle"
              THEN [pc |-> "webhook",
                    calls |-> <<Called("send_email_notifications", response'.code)>>]
              ELSE [pc |-> "email", calls |-> <<>>]

\* run(): send_webhook_notifications() after send_email_notifications()
\* returned.
NotifyWebhook ==
    /\ job.pc = "webhook"
    /\ StartWebhook(DefaultLimit)
    /\ job' = IF call'.pc = "idle"
              THEN [job EXCEPT !.pc = "done",
                               !.calls = Append(@, Called("send_webhook_notifications",
                                                          response'.code))]
              ELSE job

NotifyAttempt(result) ==
    /\ job.pc \in {"email", "webhook"}
    /\ Attempt(result)
    /\ UNCHANGED job

\* The exception of a failed record leaves the channel's function and run().
NotifyAttemptAbort(result) ==
    /\ job.pc \in {"email", "webhook"}
    /\ AttemptAbort(result)
    /\ job' = [job EXCEPT !.pc = "raised"]

NotifyNextTarget ==
    /\ job.pc = "webhook"
    /\ NextTarget
    /\ UNCHANGED job

\* The channel's function commits and returns to run().
NotifyCommit ==
    /\ job.pc \in {"email", "webhook"}
    /\ Commit
    /\ job' = [job EXCEPT
                  !.pc = IF call.channel = "email" THEN "webhook" ELSE "done",
                  !.calls = Append(@, Called("send_" \o call.channel \o "_notifications",
                                             response'.code))]

InitNotify == InitDispatch

NextNotify ==
    \/ NotifyEmail
    \/ NotifyWebhook
    \/ \E result \in Results : NotifyAttempt(result)
    \/ \E result \in Results : NotifyAttemptAbort(result)
    \/ NotifyNextTarget
    \/ NotifyCommit

SpecNotify == InitNotify /\ [][NextNotify]_vars

\* ---------------------------------------------------- metrics_daily rows
\* Dates are day numbers; date.weekday() of two dates is equal when they
\* differ by a multiple of 7.  The rows of one metric are a function from
\* metric_date to value; a stored value v of a metric of scale k stands for
\* the number v / 10^k.
Days(start, vals) ==
    [d \in start..(start + Len(vals) - 1) |-> vals[d - start + 1]]

Table(scale, rows) == [scale |-> scale, rows |-> rows]

NoRows == Table(0, <<>>)

Week == <<10, 12, 11, 13, 12, 10, 11>>

\* The test's history: seven baseline days and a spike on the target date.
Spike ==
    Table(3, Days(TargetDate - 7, <<10, 20, 15, 12, 18, 11, 19>>)
             @@ Days(TargetDate, <<200>>))

\* The same with rows older than the lookback window.
Stale ==
    Table(3, Days(TargetDate - 40, <<90, 10, 80, 10, 70, 10, 60, 10, 50>>)
             @@ Spike.rows)

Exactly6 == Table(0, Days(TargetDate - 5, <<10, 12, 11, 13, 12, 12>>))

Short5 == Table(0, Days(TargetDate - 4, <<10, 12, 11, 13, 40>>))

NoTarget == Table(3, Days(TargetDate - 7, <<10, 20, 15, 12, 18, 11, 19>>))

Thin4 ==
    Table(0, Days(TargetDate - 20, <<10>>)
             @@ Days(TargetDate - 8, <<10, 12, 11, 13, 12>>)
             @@ Days(TargetDate, <<40>>))

Quiet == Table(0, Days(TargetDate - 30, Week \o Week \o Week \o Week \o <<10, 12, 11>>))

Shift ==
    Table(0, Days(TargetDate - 30, Week \o Week \o Week \o <<10, 12, 11>>
                                   \o <<30, 32, 31, 33, 32, 30, 31>>))

Flat == Table(0, [d \in (TargetDate - 30)..TargetDate |-> 12])

AllFive ==
    Table(0, Days(TargetDate - 30,
                  <<8, 6, 7, 8, 7, 6, 7, 6, 6, 7, 7, 8, 7, 7, 8, 7, 8, 6, 8, 6,
                    8, 8, 6, 7, 6, 5, 5, 5, 5, 6, 1>>))

\* A baseline that differs by 1e-10 on one day, and an observed 1e-7.
TinyStd ==
    Table(10, Days(TargetDate - 7, <<0, 0, 0, 0, 0, 0, 1>>)
              @@ Days(TargetDate, <<1000>>))

\* A week of baseline and a target a little over three deviations above it.
Mild == Table(0, Days(TargetDate - 7, Week) @@ Days(TargetDate, <<15>>))

\* The metrics_daily tables a detection run is checked on.
SeriesTables ==
    {[tx_fail_rate |-> Spike, latency_p95_ms |-> AllFive,
      tx_completed |-> NoRows, dau |-> Shift],
     [tx_fail_rate |-> Short5, latency_p95_ms |-> NoTarget,
      tx_completed |-> Thin4, dau |-> Exactly6],
     [tx_fail_rate |-> TinyStd, latency_p95_ms |-> Quiet,
      tx_completed |-> Stale, dau |-> Exactly6],
     [tx_fail_rate |-> Mild, latency_p95_ms |-> NoTarget,
      tx_completed |-> NoRows, dau |-> Short5],
     [tx_fail_rate |-> Exactly6, latency_p95_ms |-> Flat,
      tx_completed |-> NoRows, dau |-> Quiet]}

\* ------------------------------------------------------- anomaly_rules
\* A value of the config jsonb: a number, or a string that float() and int()
\* reject.
Num(v) == [num |-> v]
Str(v) == [str |-> v]

ConfigKeys ==
    {"ewma_lambda", "ewma_limit", "change_point_window", "change_point_z",
     "seasonal_min_points", "seasonal_z", "regime_recent_days",
     "regime_baseline_days", "regime_z", "regime_var_ratio"}

\* The dict both fallback returns of load_rule_config build.
DefaultConfig ==
    [rule_version |-> "v1",
     ewma_lambda |-> EWMA_LAMBDA,
     ewma_limit |-> EWMA_LIMIT,
     change_point_window |-> CHANGE_POINT_WINDOW,
     change_point_z |-> CHANGE_POINT_Z,
     seasonal_min_points |-> SEASONAL_MIN_POINTS,
     seasonal_z |-> SEASONAL_Z,
     regime_recent_days |-> REGIME_RECENT_DAYS,
     regime_baseline_days |-> REGIME_BASELINE_DAYS,
     regime_z |-> REGIME_Z,
     regime_var_ratio |-> REGIME_VAR_RATIO]

RuleRow(version, config) == [rule_version |-> version, config |-> config]

\* What the SELECT on anomaly_rules meets: the statement fails (the table is
\* missing, the connection is lost), or it returns the newest row, if any.
RuleTables ==
    {[state |-> "unavailable", row |-> None],
     [state |-> "ok", row |-> None],
     [state |-> "ok", row |-> Some(RuleRow("v2", None))],
     [state |-> "ok", row |-> Some(RuleRow("v3",
          Some([ewma_limit |-> Num(2), change_point_window |-> Num(3)])))],
     [state |-> "ok", row |-> Some(RuleRow("v4",
          Some([seasonal_min_points |-> Str("three")])))]}

\* load_rule_config(conn): the dict it returns, and the state it leaves the
\* run's transaction in.  A statement that fails inside a PostgreSQL
\* transaction aborts the transaction: the exception is caught here, but
\* every later statement on conn fails until the transaction ends.
load_rule_config(table) ==
    IF table.state = "unavailable"
    THEN [rule_config |-> DefaultConfig, txn |-> "aborted"]
    ELSE IF table.row = None
    THEN [rule_config |-> DefaultConfig, txn |-> "active"]
    ELSE LET row == table.row[1]
             config == IF row.config = None THEN <<>> ELSE row.config[1]
             get(k) == IF k \in DOMAIN config THEN config[k]
                       ELSE Num(DefaultConfig[k])
         IN  IF \E k \in ConfigKeys : "num" \notin DOMAIN get(k)
             THEN [rule_config |-> DefaultConfig, txn |-> "active"]
             ELSE [rule_config |->
                      [k \in ConfigKeys \cup {"rule_version"} |->
                          IF k = "rule_version" THEN row.rule_version
                          ELSE get(k).num],
                   txn |-> "active"]

\* ------------------------------------------------- detection statistics
\* fetch_series: the rows of the metric with target - lookback_days <=
\* metric_date <= target, ORDER BY metric_date ASC.
RECURSIVE RowsBetween(_, _, _)
RowsBetween(rows, d0, d1) ==
    IF d0 > d1 THEN <<>>
    ELSE (IF d0 \in DOMAIN rows
          THEN <<[metric_date |-> d0, value |-> rows[d0]]>>
          ELSE <<>>) \o RowsBetween(rows, d0 + 1, d1)

fetch_series(table, metric_name, target_date) ==
    IF metric_name \notin DOMAIN table THEN <<>>
    ELSE RowsBetween(table[metric_name].rows, target_date - lookback_days,
                     target_date)

\* build_series: the date -> value map and the list of values.
build_series(series_rows) ==
    [by_date |-> [d \in {series_rows[i].metric_date : i \in DOMAIN series_rows} |->
                     LET i == CHOOSE j \in DOMAIN series_rows :
                                  series_rows[j].metric_date = d
                     IN  series_rows[i].value],
     values |-> [i \in DOMAIN series_rows |-> series_rows[i].value]]

Values(series_rows) == [i \in DOMAIN series_rows |-> series_rows[i].value]

\* compute_baseline: the values of the rows in [target - 7, target - 1].
ComputeBaselineThroughTarget(series_rows, target_date) ==
    Values(SelectSeq(series_rows,
                     LAMBDA row : /\ target_date - 7 <= row.metric_date
                                  /\ row.metric_date <= target_date))

compute_baseline(series_rows, target_date) ==
    Values(SelectSeq(series_rows,
                     LAMBDA row : /\ target_date - 7 <= row.metric_date
                                  /\ row.metric_date <= target_date - 1))

RECURSIVE SumSeq(_)
SumSeq(v) == IF v = <<>> THEN 0 ELSE Head(v) + SumSeq(Tail(v))

RECURSIVE SumSq(_)
SumSq(v) == IF v = <<>> THEN 0 ELSE Head(v) * Head(v) + SumSq(Tail(v))

\* n (n - 1) times np.var(v, ddof=1): n * sum of squares - square of sum.
Dev(v) == Len(v) * SumSq(v) - SumSeq(v) * SumSeq(v)

\* v[-k:] for 0 < k <= len(v)
Last(v, k) == SubSeq(v, Len(v) - k + 1, Len(v))

\* x * x * (product of a) >= product of b
SqGeq(x, a, b) ==
    BigGeq(BigProd(<<BigNat(Abs(x)), BigNat(Abs(x))>> \o a), BigProd(b))

RECURSIVE Pow10(_)
Pow10(k) == IF k = 0 THEN 1 ELSE 10 * Pow10(k - 1)

\* 10^k for k <= 18
BigPow10(k) ==
    IF k <= 9 THEN BigNat(Pow10(k))
    ELSE BigMul(BigNat(Pow10(9)), BigNat(Pow10(k - 9)))

\* std_dev <= 1e-9 for std_dev = np.std(vals, ddof=1) of values of the
\* given scale (0.0 for fewer than two values):
\* Dev / (n (n - 1)) / 10^(2 scale) <= 10^-18.
StdNearZero(vals, scale) ==
    LET n == Len(vals)
    IN  \/ n < 2
        \/ BigGeq(BigProd(<<BigNat(n * (n - 1)), BigPow10(scale), BigPow10(scale)>>),
                  BigProd(<<BigNat(Dev(vals)), BigPow10(18)>>))

\* The arguments the five maybe_insert_* functions are called with.
MetricContext(metric_name, target_date, series_rows, scale, rule_config, now, run) ==
    [metric_name |-> metric_name, target_date |-> target_date,
     series_rows |-> series_rows,
     series_values |-> build_series(series_rows).values,
     observed |-> build_series(series_rows).by_date[target_date],
     baseline_vals |-> compute_baseline(series_rows, target_date),
     scale |-> scale, rule_config |-> rule_config, now |-> now, run |-> run]

\* abs(zscore(observed, baseline_mean, baseline_std)) >= t
ZScoreAtLeast(m, t) ==
    LET b == m.baseline_vals
        n == Len(b)
    IN  /\ ~StdNearZero(b, m.scale)
        /\ SqGeq(n * m.observed - SumSeq(b), <<BigNat(n - 1)>>,
                 <<BigNat(t), BigNat(t), BigNat(n), BigNat(Dev(b))>>)

\* The negation of maybe_insert_zscore_alert's early return.
ZScoreFires(m) == ZScoreAtLeast(m, 3)

\* The loop ewma = lambda * val + (1 - lambda) * ewma for lambda = l / d:
\* one step takes the pair <<d^k * ewma, d^k>> to the pair for k + 1.
EwmaStep(prev, val, l, d) ==
    <<BigAdd(BigProd(<<BigNat(l), prev[2], BigNat(val)>>),
             BigMul(BigNat(d - l), prev[1])),
      BigMul(BigNat(d), prev[2])>>

\* ewma starts at vals[1] and is folded over vals[2..k].
RECURSIVE EwmaFold(_, _, _, _)
EwmaFold(vals, k, l, d) ==
    IF k = 1 THEN <<BigNat(vals[1]), <<1>>>>
    ELSE CHOOSE next \in {EwmaStep(prev, vals[k], l, d) :
                             prev \in {EwmaFold(vals, k - 1, l, d)}} : TRUE

\* The guards of maybe_insert_ewma_alert and abs(ewma_z) >= ewma_limit.
EwmaFires(m) ==
    LET base_vals == m.baseline_vals
        n == Len(base_vals)
        l == m.rule_config.ewma_lambda[1]
        d == m.rule_config.ewma_lambda[2]
        limit == m.rule_config.ewma_limit
    IN  /\ n >= 2 /\ Dev(base_vals) > 0
        /\ l > 0 /\ 2 * d > l
        /\ \E fold \in {EwmaFold(base_vals \o <<m.observed>>, n + 1, l, d)} :
              \* n d^k |ewma_current - baseline_mean|
              \E diff \in {BigDiff(BigMul(BigNat(n), fold[1]),
                                   BigMul(fold[2], BigNat(SumSeq(base_vals))))} :
                 \E lhs \in {BigProd(<<diff, diff, BigNat(n - 1),
                                       BigNat(2 * d - l)>>)} :
                    BigGeq(lhs, BigProd(<<BigNat(limit), BigNat(limit),
                                          BigNat(Dev(base_vals)), BigNat(l),
                                          BigNat(n), fold[2], fold[2]>>))

\* The guards of maybe_insert_change_point_alert and abs(cp_z) >= threshold.
ChangePointFires(m) ==
    LET v == m.series_values
        window == m.rule_config.change_point_window
        threshold == m.rule_config.change_point_z
    IN  /\ Len(v) >= 2 * window
        /\ window > 1
        /\ LET recent_vals == Last(v, window)
               prev_vals == SubSeq(v, Len(v) - 2 * window + 1, Len(v) - window)
               pooled == Dev(recent_vals) + Dev(prev_vals)
           IN  /\ pooled > 0
               /\ SqGeq(SumSeq(recent_vals) - SumSeq(prev_vals),
                        <<BigNat(window - 1)>>,
                        <<BigNat(threshold), BigNat(threshold), BigNat(pooled)>>)

\* The guards of maybe_insert_seasonal_alert and abs(seasonal_z) >= threshold.
SeasonalFires(m) ==
    LET same == Values(SelectSeq(m.series_rows,
                    LAMBDA row : /\ row.metric_date < m.target_date
                                 /\ (m.target_date - row.metric_date) % 7 = 0))
        seasonal_vals == IF Len(same) > 4 THEN Last(same, 4) ELSE same
        n == Len(seasonal_vals)
        threshold == m.rule_config.seasonal_z
    IN  /\ n >= m.rule_config.seasonal_min_points
        /\ n > 1 /\ Dev(seasonal_vals) > 0
        /\ SqGeq(n * m.observed - SumSeq(seasonal_vals), <<BigNat(n - 1)>>,
                 <<BigNat(threshold), BigNat(threshold), BigNat(n),
                   BigNat(Dev(seasonal_vals))>>)

\* abs(mean_z) >= t for the mean_z of maybe_insert_regime_shift_alert, which
\* is 0.0 when prior_std is 0.
RegimeMeanAtLeast(m, t) ==
    LET v == m.series_values
        nr == m.rule_config.regime_recent_days
        nb == m.rule_config.regime_baseline_days
        recent_vals == Last(v, nr)
        prior_vals == SubSeq(v, Len(v) - nr - nb + 1, Len(v) - nr)
    IN  /\ Dev(prior_vals) > 0
        /\ SqGeq(nb * SumSeq(recent_vals) - nr * SumSeq(prior_vals),
                 <<BigNat(nb - 1)>>,
                 <<BigNat(t), BigNat(t), BigNat(nr), BigNat(nb),
                   BigNat(Dev(prior_vals))>>)

\* The guards of maybe_insert_regime_shift_alert and the negation of its
\* last early return.
RegimeShiftFires(m) ==
    LET v == m.series_values
        nr == m.rule_config.regime_recent_days
        nb == m.rule_config.regime_baseline_days
        threshold == m.rule_config.regime_z
        ratio == m.rule_config.regime_var_ratio
    IN  /\ Len(v) >= nr + nb
        /\ nr >= 2 /\ nb >= 2
        /\ LET recent_vals == Last(v, nr)
               prior_vals == SubSeq(v, Len(v) - nr - nb + 1, Len(v) - nr)
               dr == Dev(recent_vals)
               dp == Dev(prior_vals)
               \* abs(mean_z) < threshold
               mean_quiet == ~RegimeMeanAtLeast(m, threshold)
               \* var_ratio < ratio; var_ratio is inf when prior_var is 0
               below == /\ dp > 0
                        /\ BigLess(BigProd(<<BigNat(dr), BigNat(nb * (nb - 1))>>),
                                   BigProd(<<BigNat(ratio), BigNat(dp),
                                             BigNat(nr * (nr - 1))>>))
               \* var_ratio > 1 / ratio
               above == \/ dp = 0
                        \/ BigLess(BigProd(<<BigNat(dp), BigNat(nr * (nr - 1))>>),
                                   BigProd(<<BigNat(ratio), BigNat(dr),
                                             BigNat(nb * (nb - 1))>>))
           IN  ~(mean_quiet /\ below /\ above)

\* The alert's context holds var_ratio = float("inf") when prior_var is 0:
\* json.dumps writes it as Infinity, which CAST(:ctx AS jsonb) rejects, so
\* the INSERT of insert_alert raises.
NonFiniteContext(m) ==
    LET v == m.series_values
        nr == m.rule_config.regime_recent_days
        nb == m.rule_config.regime_baseline_days
    IN  /\ RegimeShiftFires(m)
        /\ Dev(SubSeq(v, Len(v) - nr - nb + 1, Len(v) - nr)) = 0

SeverityWithoutWarn(method, m) ==
    LET AtLeast(t) ==
            CASE method = "z_score" -> ZScoreAtLeast(m, t)
              [] method = "ewma" ->
                    EwmaFires([m EXCEPT !.rule_config.ewma_limit = t])
              [] method = "change_point" ->
                    ChangePointFires([m EXCEPT !.rule_config.change_point_z = t])
              [] method = "seasonal_decomposition" ->
                    SeasonalFires([m EXCEPT !.rule_config.seasonal_z = t])
              [] method = "regime_shift" -> RegimeMeanAtLeast(m, t)
    IN  IF AtLeast(4) THEN "CRITICAL"
        ELSE "INFO"

\* severity_from_z applied to the z of a method that passed its guards:
\* CRITICAL from 4, WARN from 3, INFO below.
severity_from_z(method, m) ==
    LET AtLeast(t) ==
            CASE method = "z_score" -> ZScoreAtLeast(m, t)
              [] method = "ewma" ->
                    EwmaFires([m EXCEPT !.rule_config.ewma_limit = t])
              [] method = "change_point" ->
                    ChangePointFires([m EXCEPT !.rule_config.change_point_z = t])
              [] method = "seasonal_decomposition" ->
                    SeasonalFires([m EXCEPT !.rule_config.seasonal_z = t])
              [] method = "regime_shift" -> RegimeMeanAtLeast(m, t)
    IN  IF AtLeast(4) THEN "CRITICAL"
        ELSE IF AtLeast(3) THEN "WARN"
        ELSE "INFO"

\* ------------------------------------------------------ detection methods
\* insert_alert inside the run's transaction txn (the rows inserted and not
\* yet committed).
insert_alert(txn, m, method) ==
    Append(txn, NewAlert(m.metric_name, m.target_date, method,
                         severity_from_z(method, m),
                         m.rule_config.rule_version, m.now, m.run))

maybe_insert_zscore_alert(txn, m) ==
    IF ZScoreFires(m) THEN insert_alert(txn, m, "z_score") ELSE txn

EwmaUnlessAlerted(txn, m) ==
    IF /\ EwmaFires(m)
       /\ ~\E i \in DOMAIN txn : /\ txn[i].metric = m.metric_name
                                 /\ txn[i].metric_date = m.target_date
    THEN insert_alert(txn, m, "ewma") ELSE txn

maybe_insert_ewma_alert(txn, m) ==
    IF EwmaFires(m) THEN insert_alert(txn, m, "ewma") ELSE txn

maybe_insert_change_point_alert(txn, m) ==
    IF ChangePointFires(m) THEN insert_alert(txn, m, "change_point") ELSE txn

maybe_insert_seasonal_alert(txn, m) ==
    IF SeasonalFires(m) THEN insert_alert(txn, m, "seasonal_decomposition") ELSE txn

maybe_insert_regime_shift_alert(txn, m) ==
    IF RegimeShiftFires(m) THEN insert_alert(txn, m, "regime_shift") ELSE txn

Invoke(method, txn, m) ==
    CASE method = "z_score" -> maybe_insert_zscore_alert(txn, m)
      [] method = "ewma" -> maybe_insert_ewma_alert(txn, m)
      [] method = "change_point" -> maybe_insert_change_point_alert(txn, m)
      [] method = "seasonal_decomposition" -> maybe_insert_seasonal_alert(txn, m)
      [] method = "regime_shift" -> maybe_insert_regime_shift_alert(txn, m)

\* The calls of lines 553-613, one after the other on the same transaction.
RECURSIVE RunMethods(_, _, _)
RunMethods(order, txn, m) ==
    IF order = <<>> THEN txn
    ELSE RunMethods(Tail(order), Invoke(Head(order), txn, m), m)

\* The three `continue` of the loop over the metrics.
Skips(series_rows, target_date) ==
    \/ Len(series_rows) < 6
    \/ target_date \notin DOMAIN build_series(series_rows).by_date
    \/ Len(compute_baseline(series_rows, target_date)) < 5

\* -------------------------------------------------------- detection run
\* The alerts of run r in a table.
CountRun(table, r) == Cardinality({i \in DOMAIN table : table[i].run = r})

\* The alerts table when engine.begin()'s block ends normally.
CommitAlertsDistinct(table, pending) ==
    table \o SelectSeq(pending,
                       LAMBDA a : ~\E i \in DOMAIN table :
                                      /\ table[i].metric = a.metric
                                      /\ table[i].metric_date = a.metric_date
                                      /\ table[i].method = a.method)

CommitAlerts(table, pending) == table \o pending

\* The alerts table when an exception leaves engine.begin()'s block.
RollbackKeepsInserted(table, pending) == table \o pending

RollbackAlerts(table, pending) == table

DetectFrame ==
    UNCHANGED <<notifications, call, sends, attempts, lost, emailRaw, webhookRaw,
                sessions, series, rules, events_raw, ins, workers, delivery>>

Invocations(metric_name, order) ==
    [i \in DOMAIN order |-> <<metric_name, order[i]>>]

\* run(target_date) up to the loop: the transaction begins and
\* load_rule_config runs in it.
DetStart(p) ==
    /\ det[p].pc = "idle"
    /\ Len(runs) < MaxRuns
    /\ clock' = clock + 1
    /\ LET loaded == load_rule_config(rules)
       IN  det' = [det EXCEPT ![p] =
                      [pc |-> "run", idx |-> 1, pending |-> <<>>,
                       run |-> Len(runs) + 1, now |-> clock',
                       rule_config |-> loaded.rule_config, txn |-> loaded.txn]]
    /\ runs' = Append(runs, [outcome |-> "running", inserted |-> 0,
                             skipped |-> {}, invoked |-> <<>>,
                             start |-> clock', finish |-> 0])
    /\ UNCHANGED <<alerts, response>>
    /\ DetectFrame

\* One pass of `for metric_name in metrics`: the metric is skipped
\* (continue), or the five methods are called in order.
DetMetric(p) ==
    LET d == det[p]
    IN  /\ d.pc = "run"
        /\ d.idx <= Len(Metrics)
        /\ d.txn = "active"
        /\ LET metric_name == Metrics[d.idx]
               series_rows == fetch_series(series, metric_name, TargetDate)
           IN  IF Skips(series_rows, TargetDate)
               THEN /\ det' = [det EXCEPT ![p].idx = @ + 1]
                    /\ runs' = [runs EXCEPT ![d.run].skipped = @ \cup {metric_name}]
               ELSE LET m == MetricContext(metric_name, TargetDate, series_rows,
                                           series[metric_name].scale,
                                           d.rule_config, d.now, d.run)
                        txn == RunMethods(Methods, d.pending, m)
                    IN  /\ ~NonFiniteContext(m)
                        /\ det' = [det EXCEPT ![p].idx = @ + 1, ![p].pending = txn]
                        /\ runs' = [runs EXCEPT
                               ![d.run].inserted = @ + Len(txn) - Len(d.pending),
                               ![d.run].invoked = @ \o Invocations(metric_name, Methods)]
        /\ UNCHANGED <<alerts, clock, response>>
        /\ DetectFrame

\* A pass of the loop in which a statement raises after k of the methods
\* returned (k = 0: fetch_series raises, as it does in an aborted
\* transaction; k = 5: the INSERT of the regime-shift alert raises on its
\* context): the exception leaves the with block and the transaction is
\* rolled back.
DetMetricRaises(p, k) ==
    LET d == det[p]
    IN  /\ d.pc = "run"
        /\ d.idx <= Len(Metrics)
        /\ LET metric_name == Metrics[d.idx]
               series_rows == fetch_series(series, metric_name, TargetDate)
               order == SubSeq(Methods, 1, k)
           IN  IF k = 0
               THEN /\ alerts' = RollbackAlerts(alerts, d.pending)
                    /\ runs' = [runs EXCEPT ![d.run].outcome = "failed",
                                            ![d.run].finish = clock]
               ELSE /\ d.txn = "active"
                    /\ ~Skips(series_rows, TargetDate)
                    /\ LET m == MetricContext(metric_name, TargetDate, series_rows,
                                              series[metric_name].scale,
                                              d.rule_config, d.now, d.run)
                           txn == RunMethods(SubSeq(Methods, 1, Min(k, Len(Methods) - 1)),
                                             d.pending, m)
                       IN  /\ k = Len(Methods) => NonFiniteContext(m)
                           /\ alerts' = RollbackAlerts(alerts, txn)
                           /\ runs' = [runs EXCEPT
                                  ![d.run].inserted = @ + Len(txn) - Len(d.pending),
                                  ![d.run].invoked = @ \o Invocations(metric_name, order),
                                  ![d.run].outcome = "failed",
                                  ![d.run].finish = clock]
        /\ det' = [det EXCEPT ![p] = IdleRun]
        /\ response' = Return("anomaly_run_raised", 0, d.now)
        /\ UNCHANGED clock
        /\ DetectFrame

\* The with block ends after the last metric: COMMIT.
DetCommit(p) ==
    LET d == det[p]
    IN  /\ d.pc = "run"
        /\ d.idx > Len(Metrics)
        /\ alerts' = CommitAlerts(alerts, d.pending)
        /\ runs' = [runs EXCEPT ![d.run].outcome = "committed",
                                ![d.run].finish = clock]
        /\ det' = [det EXCEPT ![p] = IdleRun]
        /\ response' = Return("anomaly_run", Len(d.pending), d.now)
        /\ UNCHANGED clock
        /\ DetectFrame

InitDetect ==
    /\ alerts = <<>>
    /\ clock = 0
    /\ notifications = <<>>
    /\ response = NoResponse
    /\ call = IdleCall
    /\ sends = <<>>
    /\ attempts = <<>>
    /\ lost = <<>>
    /\ emailRaw = None
    /\ webhookRaw = None
    /\ det = IdleDet
    /\ runs = <<>>
    /\ series \in SeriesTables
    /\ rules \in RuleTables
    /\ NoLifecycle /\ NoJob /\ NoIngest /\ NoPeers

NextDetect ==
    \/ UNCHANGED job /\ \E p \in Runners : DetStart(p)
    \/ UNCHANGED job /\ \E p \in Runners : DetMetric(p)
    \/ UNCHANGED job /\ \E p \in Runners, k \in 0..Len(Methods) : DetMetricRaises(p, k)
    \/ UNCHANGED job /\ \E p \in Runners : DetCommit(p)

SpecDetect == InitDetect /\ [][NextDetect]_vars

\* ------------------------------------------------------------- scheduler
\* The values the metrics job may compute for the target date.
MetricValues == {12, 200}

\* INSERT INTO metrics_daily ... ON CONFLICT (metric_date, metric_name,
\* dimensions) DO UPDATE SET value = EXCLUDED.value
upsert_metric(table, metric_date, metric_name, value) ==
    IF metric_name \in DOMAIN table
    THEN [table EXCEPT ![metric_name].rows = (metric_date :> value) @@ @]
    ELSE (metric_name :> Table(0, (metric_date :> value))) @@ table

RECURSIVE UpsertAll(_, _, _, _)
UpsertAll(table, metric_date, names, value) ==
    IF names = <<>> THEN table
    ELSE UpsertAll(upsert_metric(table, metric_date, Head(names), value),
                   metric_date, Tail(names), value)

\* The metrics job's run(metric_date): the KPIs it writes, latency_p95_ms
\* only when a p95 exists.
run_metrics(table, metric_date, value, p95) ==
    LET written == UpsertAll(table, metric_date,
                             <<"dau", "tx_completed_count", "tx_completed_value",
                               "tx_fail_rate">>, value)
    IN  IF p95 = None THEN written
        ELSE upsert_metric(written, metric_date, "latency_p95_ms", p95[1])

SchedulerFrame ==
    UNCHANGED <<alerts, notifications, clock, response, call, sends, attempts,
                lost, emailRaw, webhookRaw, det, runs, sessions, rules,
                events_raw, ins, workers, delivery>>

\* run_all() is entered (at start-up, then every hour) and run_dq() returns.
SchedDq ==
    /\ job.pc \in {"idle", "done", "raised"}
    /\ Len(runs) < MaxRuns
    /\ job' = [pc |-> "metrics", calls |-> <<"dq">>]
    /\ UNCHANGED series
    /\ SchedulerFrame

\* run_metrics() returns.
SchedMetrics ==
    /\ job.pc = "metrics"
    /\ \E value \in MetricValues, p95 \in {None} \cup {Some(v) : v \in MetricValues} :
          series' = run_metrics(series, TargetDate, value, p95)
    /\ job' = [pc |-> "anomaly", calls |-> Append(job.calls, "metrics")]
    /\ SchedulerFrame

\* run_dq() or run_metrics() raises: its transaction is rolled back and the
\* exception leaves run_all().
SchedJobRaises ==
    /\ job.pc \in {"idle", "done", "raised", "metrics"}
    /\ Len(runs) < MaxRuns
    /\ job' = [pc |-> "raised",
               calls |-> IF job.pc = "metrics" THEN Append(job.calls, "metrics")
                         ELSE <<"dq">>]
    /\ UNCHANGED series
    /\ SchedulerFrame

\* run_anomaly(): the detection run of the scheduler's process.
SchedAnomalyStart ==
    /\ job.pc = "anomaly"
    /\ DetStart(1)
    /\ job' = [job EXCEPT !.calls = Append(@, "anomaly")]

SchedAnomalyMetric ==
    /\ job.pc = "anomaly"
    /\ DetMetric(1)
    /\ UNCHANGED job

SchedAnomalyRaises(k) ==
    /\ job.pc = "anomaly"
    /\ DetMetricRaises(1, k)
    /\ job' = [job EXCEPT !.pc = "raised"]

\* run_anomaly() returns, and run_all() after it.
SchedAnomalyCommit ==
    /\ job.pc = "anomaly"
    /\ DetCommit(1)
    /\ job' = [job EXCEPT !.pc = "done"]

\* The metrics_daily table the metrics job leaves after running on each of
\* the thirty days before the target date.
MetricsJobTable ==
    [name \in DOMAIN run_metrics(<<>>, TargetDate, 12, Some(12)) |->
        Table(0, [d \in (TargetDate - lookback_days)..(TargetDate - 1) |->
                     Quiet.rows[d]])]

InitScheduler ==
    /\ alerts = <<>>
    /\ clock = 0
    /\ notifications = <<>>
    /\ response = NoResponse
    /\ call = IdleCall
    /\ sends = <<>>
    /\ attempts = <<>>
    /\ lost = <<>>
    /\ emailRaw = None
    /\ webhookRaw = None
    /\ det = IdleDet
    /\ runs = <<>>
    /\ series \in {t \in SeriesTables : t.tx_fail_rate \in {Spike, Short5}}
                    \cup {MetricsJobTable}
    /\ rules \in RuleTables
    /\ NoLifecycle /\ NoJob /\ NoIngest /\ NoPeers

NextScheduler ==
    \/ SchedDq
    \/ SchedMetrics
    \/ SchedJobRaises
    \/ SchedAnomalyStart
    \/ SchedAnomalyMetric
    \/ \E k \in 0..Len(Methods) : SchedAnomalyRaises(k)
    \/ SchedAnomalyCommit

SpecScheduler == InitScheduler /\ [][NextScheduler]_vars

\* ------------------------------------------------- lifecycle properties
AckStep(i) ==
    /\ response' # response
    /\ response'.op = "ack" /\ response'.code = 200 /\ response'.alert_id = i

ResolveStep(i) ==
    /\ response' # response
    /\ response'.op = "resolve" /\ response'.code = 200 /\ response'.alert_id = i

StatusRank(s) == IF s = "OPEN" THEN 0 ELSE IF s = "ACK" THEN 1 ELSE 2

\* C4: acknowledging an alert whose acked_by is already set, with a
\* different actor, leaves acked_by and acked_at unchanged.
C4_AckKeepsActor ==
    [][\A i \in DOMAIN alerts :
          (AckStep(i) /\ alerts[i].acked_by # None
                      /\ alerts[i].acked_by # Some(response'.actor))
              => /\ alerts'[i].acked_by = alerts[i].acked_by
                 /\ alerts'[i].acked_at = alerts[i].acked_at]_vars

\* C5: an alert's status never moves backwards along OPEN -> ACK -> RESOLVED;
\* in particular acknowledge on a RESOLVED alert leaves it RESOLVED.
C5_StatusForward ==
    [][\A i \in DOMAIN alerts :
          StatusRank(alerts'[i].status) >= StatusRank(alerts[i].status)]_vars

\* C6: resolving a never-acknowledged alert sets status RESOLVED and sets
\* resolved_by and acked_by to the resolving actor and resolved_at and
\* acked_at to the time of the call; resolving an alert that was already
\* acknowledged keeps its acked_by and acked_at.
C6_ResolveBackfill ==
    [][\A i \in DOMAIN alerts :
          ResolveStep(i) =>
              /\ alerts'[i].status = "RESOLVED"
              /\ alerts'[i].resolved_by = Some(response'.actor)
              /\ alerts[i].acked_by = None =>
                    /\ alerts'[i].acked_by = Some(response'.actor)
                    /\ alerts'[i].resolved_at = Some(response'.at)
                    /\ alerts'[i].acked_at = Some(response'.at)
              /\ alerts[i].acked_by # None =>
                    /\ alerts'[i].acked_by = alerts[i].acked_by
                    /\ alerts'[i].acked_at = alerts[i].acked_at]_vars

\* Both cases of C6 in one state: alert j was resolved without an ack by the
\* last call, alert i was acknowledged by one actor and resolved by another.
C6_Witness ==
    \E i, j \in DOMAIN alerts :
        /\ i # j
        /\ response.op = "resolve" /\ response.code = 200
        /\ response.alert_id = j
        /\ alerts[j].status = "RESOLVED"
        /\ alerts[j].acked_by = Some(response.actor)
        /\ alerts[j].resolved_by = Some(response.actor)
        /\ alerts[j].acked_at = Some(response.at)
        /\ alerts[j].resolved_at = Some(response.at)
        /\ alerts[i].status = "RESOLVED"
        /\ alerts[i].acked_by # alerts[i].resolved_by
        /\ alerts[i].acked_at # alerts[i].resolved_at

\* C7: resolving an already RESOLVED alert again, with a different actor,
\* leaves resolved_by, resolved_at, acked_by and acked_at as they were.
C7_ResolveIdempotent ==
    [][\A i \in DOMAIN alerts :
          (ResolveStep(i) /\ alerts[i].status = "RESOLVED"
                          /\ alerts[i].resolved_by # Some(response'.actor))
              => /\ alerts'[i].resolved_by = alerts[i].resolved_by
                 /\ alerts'[i].resolved_at = alerts[i].resolved_at
                 /\ alerts'[i].acked_by = alerts[i].acked_by
                 /\ alerts'[i].acked_at = alerts[i].acked_at]_vars

LifecycleStep ==
    /\ response' # response
    /\ response'.op \in {"ack", "resolve"}

\* C11: acknowledge and resolve called by an authorised caller with an
\* alert_id that does not exist answer 404 (not found) and leave the alerts
\* table, every row and every field of it, exactly as it was.
C11_NotFoundChangesNothing ==
    [][(/\ LifecycleStep
        /\ response'.role \in {Some("operator"), Some("admin")}
        /\ response'.alert_id \notin DOMAIN alerts)
          => /\ response'.code = 404
             /\ alerts' = alerts]_vars

\* A resolve of a missing alert was answered 404 while the table holds an
\* alert that an earlier call acknowledged.
C11_Witness ==
    /\ response.op = "resolve" /\ response.code = 404
    /\ response.alert_id \notin DOMAIN alerts
    /\ \E i \in DOMAIN alerts : alerts[i].status = "ACK"

\* C12: acknowledge and resolve are gated by role rank: with the X-Role
\* header absent (reader by default), naming no known role, or naming reader
\* the call is answered 403 and no alert changes; with operator or admin the
\* call is not answered 403 and an existing alert is updated.
C12_RoleGate ==
    [][LifecycleStep =>
          /\ response'.role \in {None, Some("reader"), Some("root")} =>
                /\ response'.code = 403
                /\ alerts' = alerts
          /\ response'.role \in {Some("operator"), Some("admin")} =>
                /\ response'.code # 403
                /\ response'.alert_id \in DOMAIN alerts =>
                      /\ response'.code = 200
                      /\ alerts'[response'.alert_id].status # "OPEN"]_vars

\* A reader's resolve of an alert an operator had acknowledged was answered
\* 403 and the alert is still ACK.
C12_Witness ==
    /\ response.op = "resolve" /\ response.code = 403
    /\ response.role = Some("reader")
    /\ response.alert_id \in DOMAIN alerts
    /\ alerts[response.alert_id].status = "ACK"
    /\ alerts[response.alert_id].resolved_by = None

\* C13: with acknowledge and resolve calls on one alert served concurrently,
\* no commit replaces an actor or timestamp field that an earlier call had
\* set, and no commit moves the alert's status backwards.
C13_ConcurrentNoOverwrite ==
    [][\A i \in DOMAIN alerts :
          /\ alerts[i].acked_by # None => alerts'[i].acked_by = alerts[i].acked_by
          /\ alerts[i].acked_at # None => alerts'[i].acked_at = alerts[i].acked_at
          /\ alerts[i].resolved_by # None =>
                alerts'[i].resolved_by = alerts[i].resolved_by
          /\ alerts[i].resolved_at # None =>
                alerts'[i].resolved_at = alerts[i].resolved_at
          /\ StatusRank(alerts'[i].status) >= StatusRank(alerts[i].status)]_vars

\* ------------------------------------------------ dispatcher properties
RowsOf(rows, k) == {i \in DOMAIN rows : Key(rows[i]) = k}

CallKey(a) == <<a, call.channel, call.target>>

CallView == ApplyWrites(notifications, call.writes)

TriedIds == {call.tried[i].alert_id : i \in DOMAIN call.tried}

\* C1: a dispatch call for a channel and target never selects, and never
\* performs an external send for, an alert that already has a sent record
\* for that (alert, channel, target).
C1_NoResendAfterSent ==
    call.pc = "run" =>
        \A a \in SeqToSet(call.selected) \cup TriedIds :
            ~HasRow(notifications, a, call.channel, call.target, "sent")

\* A later call has sent to another alert while passing over the alert whose
\* sent record an earlier call committed.
C1_Witness ==
    /\ call.pc = "run"
    /\ call.tried # <<>>
    /\ \E a \in DOMAIN alerts :
          /\ HasRow(notifications, a, call.channel, call.target, "sent")
          /\ a \notin SeqToSet(call.selected)

\* C2: the number of successful external sends for one (alert, channel,
\* destination) never exceeds one, whatever fails between a send and the
\* record of its outcome.
C2_AtMostOneDelivery == \A k \in DOMAIN sends : sends[k] <= 1

\* C2, amended: the successful sends for one triple never exceed one plus
\* the number of its successful sends whose sent record was rolled back.
C2_AtMostOneRecordedDelivery == \A k \in DOMAIN sends : sends[k] <= 1 + lost[k]

\* A triple delivered twice: the record of the first delivery was lost, the
\* second is committed.
C2_Witness ==
    \E k \in DOMAIN sends :
        /\ sends[k] = 2 /\ lost[k] = 1
        /\ HasRow(notifications, k[1], k[2], k[3], "sent")

\* C3: an alert whose record for the call's channel and target is failed is
\* selected again whenever fewer than limit other pending alerts are at
\* least as old; the call attempts the selected alerts in order; and a
\* delivery whose record is kept leaves exactly one record for the triple,
\* with status sent.
C3_FailedIsRetried ==
    /\ call.pc = "run" =>
          /\ \A a \in DOMAIN alerts :
                (/\ HasRow(notifications, a, call.channel, call.target, "failed")
                 /\ Cardinality({b \in Pending(notifications, call.channel,
                                               call.target) \ {a} :
                                    alerts[b].ts <= alerts[a].ts}) < call.limit)
                    => a \in SeqToSet(call.selected)
          /\ \A i \in DOMAIN call.tried : call.tried[i].alert_id = call.selected[i]
          /\ \A k \in call.ok :
                /\ Cardinality(RowsOf(CallView, k)) = 1
                /\ HasRow(CallView, k[1], k[2], k[3], "sent")
    /\ call.pc = "idle" =>
          \A k \in DOMAIN sends :
              sends[k] > lost[k] =>
                  /\ Cardinality(RowsOf(notifications, k)) = 1
                  /\ \A i \in RowsOf(notifications, k) :
                        /\ notifications[i].status = "sent"
                        /\ notifications[i].sent_at # None
                        /\ notifications[i].last_error = None

\* Two failed attempts, then a third that succeeded and was committed.
C3_Witness ==
    /\ call.pc = "idle"
    /\ \E k \in DOMAIN sends :
          /\ attempts[k] >= 3 /\ sends[k] = 1 /\ lost[k] = 0
          /\ HasRow(notifications, k[1], k[2], k[3], "sent")

NoDuplicateKey(rows) ==
    \A i, j \in DOMAIN rows : Key(rows[i]) = Key(rows[j]) => i = j

\* C8: there is at most one NotificationRecord per (alert_id, channel,
\* target), in the table and in what a dispatch call has written so far.
C8_UniqueRecord == NoDuplicateKey(notifications) /\ NoDuplicateKey(CallView)

\* A retry in progress: the committed record of the triple is failed, the
\* call has recorded a new outcome for it, and the table has not grown.
C8_Witness ==
    /\ call.pc = "run"
    /\ \E i \in DOMAIN call.writes :
          HasRow(notifications, call.writes[i].alert_id, call.channel,
                 call.writes[i].target, "failed")
    /\ Len(CallView) = Len(notifications)

\* C9: within one dispatch call every selected alert is attempted in turn,
\* whatever the outcome of the sends before it, and every attempt's outcome
\* is recorded: sent, or failed with the error text and no sent_at.
C9_FailureDoesNotStopBatch ==
    call.pc = "run" =>
        /\ Len(call.tried) + Len(call.queue) = Len(call.selected)
        /\ \A i \in DOMAIN call.queue :
              call.queue[i] = call.selected[Len(call.tried) + i]
        /\ \A i \in DOMAIN call.tried :
              LET a == call.tried[i].alert_id
                  result == call.tried[i].result
              IN  /\ a = call.selected[i]
                  /\ \E j \in RowsOf(CallView, CallKey(a)) :
                        IF result = "ok"
                        THEN CallView[j].status = "sent"
                        ELSE /\ CallView[j].status = "failed"
                             /\ CallView[j].last_error = Some(result)
                             /\ CallView[j].sent_at = None

\* A call whose first send failed and whose second send, for the next
\* candidate, succeeded.
C9_Witness ==
    /\ call.pc = "run"
    /\ Len(call.tried) >= 2
    /\ call.tried[1].result # "ok"
    /\ call.tried[2].result = "ok"
    /\ HasRow(CallView, call.tried[1].alert_id, call.channel, call.target, "failed")

\* The candidates of the call's current destination, just after its SELECT:
\* alerts without a sent record for it, oldest first, none skipped, at most
\* limit of them.
SelectionOldestFirst ==
    (call.pc = "run" /\ call.tried = <<>>) =>
        LET rows == ApplyWrites(notifications, call.writes)
            sel == call.selected
            pend == {a \in DOMAIN alerts :
                        ~HasRow(rows, a, call.channel, call.target, "sent")}
        IN  /\ call.queue = sel
            /\ \A i \in DOMAIN sel : sel[i] \in pend
            /\ \A i, j \in DOMAIN sel :
                  i < j => sel[i] # sel[j] /\ alerts[sel[i]].ts <= alerts[sel[j]].ts
            /\ Len(sel) = Min(call.limit, Cardinality(pend))
            /\ \A a \in pend \ SeqToSet(sel) :
                  \A i \in DOMAIN sel : alerts[sel[i]].ts <= alerts[a].ts

\* The sends tried for the current destination are the first candidates, in
\* order, never more than limit.
TriedWithinLimit ==
    call.pc = "run" =>
        /\ Len(call.tried) <= call.limit
        /\ Len(call.tried) <= Len(call.selected)
        /\ \A i \in DOMAIN call.tried : call.tried[i].alert_id = call.selected[i]

\* A step in which a dispatch call commits and returns its count.
ReturnsCount ==
    /\ call.pc = "run" /\ call'.pc = "idle"
    /\ response'.op = "send_" \o call.channel

\* C19 as stated: the returned count is the number of alerts whose send
\* succeeded and was recorded as sent in the call.
C19_CountsAlerts ==
    [][ReturnsCount => response'.code = Cardinality({k[1] : k \in call.ok})]_vars

\* C19: for each destination of a dispatch call the candidates are the alerts
\* lacking a sent record for that (channel, destination), oldest first and
\* capped at limit, so at most limit sends are tried per destination; the
\* returned count is the number of (alert, destination) sends that succeeded
\* and were recorded as sent in the call, summed over the destinations of
\* the channel.
C19_CountsDeliveries ==
    /\ [](SelectionOldestFirst /\ TriedWithinLimit)
    /\ [][ReturnsCount =>
            /\ response'.code = Cardinality(call.ok)
            /\ response'.code = Cardinality({i \in DOMAIN call.writes :
                                               call.writes[i].status = "sent"})
            /\ \A k \in call.ok : HasRow(notifications', k[1], k[2], k[3], "sent")]_vars

\* A webhook call with two URLs has returned 2 after delivering one alert to
\* both.
C19_Witness ==
    /\ response.op = "send_webhook" /\ response.code = 2
    /\ call.pc = "idle"
    /\ \E a \in DOMAIN alerts :
          \E i, j \in DOMAIN notifications :
             /\ i # j
             /\ notifications[i].alert_id = a /\ notifications[j].alert_id = a
             /\ notifications[i].channel = "webhook"
             /\ notifications[j].channel = "webhook"
             /\ notifications[i].sent_at = Some(response.at)
             /\ notifications[j].sent_at = Some(response.at)

\* ------------------------------------------------- detection properties
\* C10: the alerts of a detection run are committed together or not at all:
\* a committed run has every alert it inserted in the table, a failed run
\* and a run still in progress have none.
C10_RunAllOrNothing ==
    \A r \in DOMAIN runs :
        CountRun(alerts, r) =
            IF runs[r].outcome = "committed" THEN runs[r].inserted ELSE 0

\* A run that failed after inserting alerts, beside a run that committed
\* alerts of two different metrics.
C10_Witness ==
    \E r, c \in DOMAIN runs :
        /\ runs[r].outcome = "failed" /\ runs[r].inserted >= 1
        /\ runs[c].outcome = "committed" /\ runs[c].inserted >= 2
        /\ \E i, j \in DOMAIN alerts :
              /\ alerts[i].run = c /\ alerts[j].run = c
              /\ alerts[i].metric # alerts[j].metric

\* The rows of run r: its committed alerts, or the inserts of its open
\* transaction.
RunRows(r) ==
    SelectSeq(alerts, LAMBDA a : a.run = r)
        \o (IF \E p \in Runners : det[p].pc = "run" /\ det[p].run = r
            THEN det[CHOOSE p \in Runners : det[p].pc = "run" /\ det[p].run = r].pending
            ELSE <<>>)

\* What run r hands to the five methods for one metric.
RunContext(r, metric_name) ==
    MetricContext(metric_name, TargetDate,
                  fetch_series(series, metric_name, TargetDate),
                  series[metric_name].scale,
                  load_rule_config(rules).rule_config, runs[r].start, r)

Evaluated(r, metric_name) ==
    \E i \in DOMAIN runs[r].invoked : runs[r].invoked[i][1] = metric_name

Reverse(s) == [i \in 1..Len(s) |-> s[Len(s) + 1 - i]]

\* C14: in a detection run that has not failed, every evaluated metric has
\* had each of the five methods invoked exactly once; each method has
\* inserted zero or one alert, exactly the alert it inserts when it is invoked
\* alone on an empty transaction (so no method depends on another having
\* fired), and the same alerts result from the reverse invocation order; the
\* alerts of the metric are kept as separate rows, at most five, one per
\* method, each carrying the name of the method that wrote it.
C14_MethodsIndependent ==
    \A r \in DOMAIN runs :
        runs[r].outcome # "failed" =>
            \A k \in DOMAIN Metrics :
                Evaluated(r, Metrics[k]) =>
                    LET m == RunContext(r, Metrics[k])
                        rows == SelectSeq(RunRows(r),
                                          LAMBDA a : a.metric = Metrics[k])
                    IN  /\ \A j \in DOMAIN Methods :
                              /\ Cardinality({i \in DOMAIN runs[r].invoked :
                                    runs[r].invoked[i] = <<Metrics[k], Methods[j]>>}) = 1
                              /\ SelectSeq(rows, LAMBDA a : a.method = Methods[j])
                                    = Invoke(Methods[j], <<>>, m)
                              /\ Len(Invoke(Methods[j], <<>>, m)) <= 1
                        /\ Len(rows) <= Len(Methods)
                        /\ \A i \in DOMAIN rows :
                              /\ rows[i].method \in SeqToSet(Methods)
                              /\ rows[i].metric_date = TargetDate
                        /\ SeqToSet(rows)
                              = SeqToSet(RunMethods(Reverse(Methods), <<>>, m))

\* A committed run in which one metric got the alerts of all five methods and
\* another metric the alerts of only some of them.
C14_Witness ==
    \E r \in DOMAIN runs :
        /\ runs[r].outcome = "committed"
        /\ \E a, b \in SeqToSet(Metrics) :
              /\ Evaluated(r, a) /\ Evaluated(r, b)
              /\ {alerts[i].method : i \in {j \in DOMAIN alerts :
                    alerts[j].run = r /\ alerts[j].metric = a}} = SeqToSet(Methods)
              /\ Cardinality({j \in DOMAIN alerts :
                    alerts[j].run = r /\ alerts[j].metric = a}) = Len(Methods)
              /\ Cardinality({j \in DOMAIN alerts :
                    alerts[j].run = r /\ alerts[j].metric = b}) \in 1..(Len(Methods) - 1)

\* The lookups the fallback is for: the SELECT fails, finds no row, or finds a
\* row whose config holds a value float() or int() rejects.
NeedsFallback(table) ==
    \/ table.state = "unavailable"
    \/ table.row = None
    \/ /\ table.row[1].config # None
       /\ \E k \in DOMAIN table.row[1].config :
             "num" \notin DOMAIN table.row[1].config[k]

\* C15: a detection run whose rule lookup found no row or failed holds the
\* built-in defaults with rule_version v1, and its transaction is still
\* usable, so the run proceeds to evaluate the metrics with them.
C15_FallbackProceeds ==
    \A p \in Runners :
        (det[p].pc = "run" /\ NeedsFallback(rules)) =>
            /\ det[p].rule_config = DefaultConfig
            /\ det[p].txn = "active"

\* ------------------------------------------------- notify job properties
\* A configuration value that is missing or holds only blank pieces.
Blank(raw) == raw = None \/ \A i \in DOMAIN raw[1] : raw[1][i] \in {"", " "}

\* Nothing has been sent, tried or recorded on a channel, and every call of
\* its function returned 0.
ChannelUntouched(channel) ==
    /\ \A k \in DOMAIN attempts :
          k[2] = channel => attempts[k] = 0 /\ sends[k] = 0
    /\ \A i \in DOMAIN notifications : notifications[i].channel # channel
    /\ call.pc = "run" => call.channel # channel
    /\ \A i \in DOMAIN job.calls :
          job.calls[i].fn = "send_" \o channel \o "_notifications"
              => job.calls[i].returned = 0

\* Every alert has been tried on every destination of a channel.
ChannelWorked(channel) ==
    \A k \in DOMAIN attempts : k[2] = channel => attempts[k] >= 1

\* C16: a channel whose configuration is missing or all blank is disabled
\* without error: its function returns 0, nothing is sent or tried on it and
\* no notification row of it exists; and the other channel still runs: a run
\* of the job that ended normally called the email function and then the
\* webhook function, and the configured channel tried every alert.
C16_DisabledChannel ==
    /\ Blank(emailRaw) => ChannelUntouched("email")
    /\ Blank(webhookRaw) => ChannelUntouched("webhook")
    /\ job.pc = "done" =>
          /\ [i \in DOMAIN job.calls |-> job.calls[i].fn]
                = <<"send_email_notifications", "send_webhook_notifications">>
          /\ ~Blank(emailRaw) => ChannelWorked("email")
          /\ ~Blank(webhookRaw) => ChannelWorked("webhook")
    /\ job.pc = "raised" => ~(Blank(emailRaw) /\ Blank(webhookRaw))

\* A finished run in which the email channel, configured with blanks only,
\* returned 0 and the webhook channel delivered and recorded an alert.
C16_Witness ==
    /\ job.pc = "done"
    /\ emailRaw # None /\ Blank(emailRaw)
    /\ job.calls[1].returned = 0
    /\ job.calls[2].returned >= 1
    /\ \E i \in DOMAIN notifications :
          notifications[i].channel = "webhook" /\ notifications[i].status = "sent"

\* --------------------------------------------------- scheduler properties
\* C17: when run_all has returned it has called the data-quality job, the
\* metrics job, the anomaly-detection job and the notification job, once each
\* and in that order.
C17_RunAllOrder ==
    job.pc = "done" => job.calls = <<"dq", "metrics", "anomaly", "notify">>

\* The alerts a run inserts when it evaluates the metrics from index k on,
\* whatever the alerts table holds.
RECURSIVE FiringAlerts(_, _)
FiringAlerts(r, k) ==
    IF k > Len(Metrics) THEN <<>>
    ELSE (IF Skips(fetch_series(series, Metrics[k], TargetDate), TargetDate)
          THEN <<>>
          ELSE RunMethods(Methods, <<>>, RunContext(r, Metrics[k])))
         \o FiringAlerts(r, k + 1)

EachRunInsertsItsCopy ==
    \A r \in DOMAIN runs :
        runs[r].outcome = "committed" =>
            SelectSeq(alerts, LAMBDA a : a.run = r) = FiringAlerts(r, 1)

AlertsOnlyAppended ==
    /\ Len(alerts') >= Len(alerts)
    /\ SubSeq(alerts', 1, Len(alerts)) = alerts

\* C18: no uniqueness is enforced on (method, metric, date): every committed
\* detection run over the same target date and history, whether it ran after
\* or overlapped another run, has its own copy of every firing alert in the
\* table (so the alerts of the date grow with every run), and a step never
\* changes or removes an existing alert.
C18_NoUniqueness == []EachRunInsertsItsCopy /\ [][AlertsOnlyAppended]_vars

\* Two committed runs that overlapped in time and left the same
\* (metric, date, method) alert twice, beside each other.
C18_Witness ==
    \E r, q \in DOMAIN runs :
        /\ r < q
        /\ runs[r].outcome = "committed" /\ runs[q].outcome = "committed"
        /\ runs[q].start <= runs[r].finish
        /\ \E i, j \in DOMAIN alerts :
              /\ alerts[i].run = r /\ alerts[j].run = q
              /\ alerts[i].metric = alerts[j].metric
              /\ alerts[i].metric_date = alerts[j].metric_date
              /\ alerts[i].method = alerts[j].method

\* The dates of a metric's rows between two dates.
DatesBetween(metric_name, d0, d1) ==
    {d \in DOMAIN series[metric_name].rows : d0 <= d /\ d <= d1}

TooFewPoints(metric_name) ==
    Cardinality(DatesBetween(metric_name, TargetDate - lookback_days, TargetDate)) < 6

NoObservedValue(metric_name) ==
    TargetDate \notin DOMAIN series[metric_name].rows

TooFewBaselinePoints(metric_name) ==
    Cardinality(DatesBetween(metric_name, TargetDate - 7, TargetDate - 1)) < 5

\* Run r has been through the pass of the loop for the k-th metric.
Passed(r, k) ==
    \/ runs[r].outcome = "committed"
    \/ \E p \in Runners : det[p].pc = "run" /\ det[p].run = r /\ k < det[p].idx

\* C20: a metric whose loaded history has fewer than 6 points, or no value on
\* the target date, or fewer than 5 values in [target-7, target-1] is skipped:
\* no method is invoked for it and the run holds no alert for it; every other
\* metric of the run has all five methods invoked, whatever was skipped
\* before it.
C20_SkipRule ==
    \A r \in DOMAIN runs :
        \A k \in DOMAIN Metrics :
            Passed(r, k) =>
                IF \/ TooFewPoints(Metrics[k])
                   \/ NoObservedValue(Metrics[k])
                   \/ TooFewBaselinePoints(Metrics[k])
                THEN /\ Metrics[k] \in runs[r].skipped
                     /\ ~Evaluated(r, Metrics[k])
                     /\ \A i \in DOMAIN RunRows(r) : RunRows(r)[i].metric # Metrics[k]
                ELSE /\ Metrics[k] \notin runs[r].skipped
                     /\ \A j \in DOMAIN Methods :
                           \E i \in DOMAIN runs[r].invoked :
                              runs[r].invoked[i] = <<Metrics[k], Methods[j]>>

\* A committed run that skipped one metric for each of the three reasons and
\* evaluated the metric after them, which has exactly five baseline points.
C20_Witness ==
    \E r \in DOMAIN runs :
        /\ runs[r].outcome = "committed"
        /\ \E a, b, c \in runs[r].skipped :
              /\ TooFewPoints(a)
              /\ ~TooFewPoints(b) /\ NoObservedValue(b)
              /\ ~TooFewPoints(c) /\ ~NoObservedValue(c) /\ TooFewBaselinePoints(c)
        /\ \E k \in DOMAIN Metrics :
              /\ Evaluated(r, Metrics[k])
              /\ Cardinality(DatesBetween(Metrics[k], TargetDate - 7, TargetDate - 1)) = 5
              /\ \E j \in 1..(k - 1) : Metrics[j] \in runs[r].skipped

\* The baseline of a metric has a standard deviation of at most 1e-9.
BaselineStdNearZero(metric_name) ==
    StdNearZero(compute_baseline(fetch_series(series, metric_name, TargetDate),
                                 TargetDate),
                series[metric_name].scale)

\* C21: for a metric whose baseline standard deviation is at most 1e-9, a
\* detection run that has not failed holds neither a z_score alert nor an ewma alert, whatever
\* the observed value.
C21_NearZeroStdSilent ==
    \A r \in DOMAIN runs :
        \A k \in DOMAIN Metrics :
            (/\ runs[r].outcome # "failed"
             /\ Evaluated(r, Metrics[k])
             /\ BaselineStdNearZero(Metrics[k])) =>
                \A i \in DOMAIN RunRows(r) :
                    RunRows(r)[i].metric = Metrics[k] =>
                        RunRows(r)[i].method \notin {"z_score", "ewma"}

RECURSIVE PowerSum(_, _, _)
PowerSum(rows, dates, p) ==
    IF dates = {} THEN 0
    ELSE LET d == CHOOSE x \in dates : TRUE
         IN  (IF p = 2 THEN rows[d] * rows[d] ELSE rows[d])
                 + PowerSum(rows, dates \ {d}, p)

\* |z| >= t for z = (observed - mean) / stdev over the rows of
\* [target-7, target-1], stdev being the sample deviation; false when the
\* deviation is zero.
AbsZAtLeast(metric_name, t) ==
    LET rows == series[metric_name].rows
        dates == DatesBetween(metric_name, TargetDate - 7, TargetDate - 1)
        n == Cardinality(dates)
        s == PowerSum(rows, dates, 1)
        dev == n * PowerSum(rows, dates, 2) - s * s
        gap == n * rows[TargetDate] - s
    IN  dev > 0 /\ gap * gap * (n - 1) >= t * t * n * dev

ZScoreRows(r, metric_name) ==
    {i \in DOMAIN RunRows(r) :
        RunRows(r)[i].metric = metric_name /\ RunRows(r)[i].method = "z_score"}

\* C22 as stated: for a metric evaluated by a run that has not failed the
\* z-score method has inserted an
\* alert exactly when |z| >= 3 for z = (observed - mean) / stdev; the alert is
\* CRITICAL when |z| >= 4 and WARN otherwise, never INFO.
C22_AsStated ==
    \A r \in DOMAIN runs :
        \A k \in DOMAIN Metrics :
            (runs[r].outcome # "failed" /\ Evaluated(r, Metrics[k])) =>
                /\ (ZScoreRows(r, Metrics[k]) # {}) <=> AbsZAtLeast(Metrics[k], 3)
                /\ Cardinality(ZScoreRows(r, Metrics[k])) <= 1
                /\ \A i \in ZScoreRows(r, Metrics[k]) :
                       RunRows(r)[i].severity =
                           IF AbsZAtLeast(Metrics[k], 4) THEN "CRITICAL" ELSE "WARN"

\* C22: the same with z taken as 0 when the baseline deviation is at most
\* 1e-9: for a metric evaluated by a run that has not failed the z-score
\* method has inserted one alert
\* exactly when the deviation exceeds 1e-9 and |z| >= 3; the alert carries
\* method z_score and is CRITICAL when |z| >= 4 and WARN when 3 <= |z| < 4.
C22_ZScoreSeverity ==
    \A r \in DOMAIN runs :
        \A k \in DOMAIN Metrics :
            (runs[r].outcome # "failed" /\ Evaluated(r, Metrics[k])) =>
                /\ (ZScoreRows(r, Metrics[k]) # {})
                       <=> (~BaselineStdNearZero(Metrics[k]) /\ AbsZAtLeast(Metrics[k], 3))
                /\ Cardinality(ZScoreRows(r, Metrics[k])) <= 1
                /\ \A i \in ZScoreRows(r, Metrics[k]) :
                       RunRows(r)[i].severity =
                           IF AbsZAtLeast(Metrics[k], 4) THEN "CRITICAL" ELSE "WARN"

C22_Witness ==
    \E i \in DOMAIN alerts :
        /\ alerts[i].method = "z_score"
        /\ alerts[i].severity = "WARN"
        /\ AbsZAtLeast(alerts[i].metric, 3)
        /\ ~AbsZAtLeast(alerts[i].metric, 4)

\* ------------------------------------------------------- event ingestion
\* insert_event_raw on one database session.  events_raw holds the committed
\* event ids; ins is the session and the call: the rows the session has
\* inserted and not committed, the attempt of the loop, what each execute
\* did, the rollbacks issued, the time slept (in units of 0.2 s) and the
\* returned pair.
EventIds == {1, 2}

MaxInserts == 3

\* What db.execute does: the INSERT succeeds, or raises OperationalError, an
\* IntegrityError on the unique event_id, or any other exception.
Outcomes == {"ok", "OperationalError", "IntegrityError", "Exception"}

IdleInsert ==
    [pc |-> "idle", event_id |-> 0, attempt |-> 0, inserted |-> {},
     executed |-> <<>>, rollbacks |-> 0, slept |-> 0, returned |-> None,
     calls |-> 0]

\* The message of the exception as the handler reads it.
Message(outcome) ==
    IF outcome = "IntegrityError"
    THEN "duplicate key value violates unique constraint"
    ELSE "error"

Returned(c, accepted, reason) ==
    [c EXCEPT !.pc = "returned", !.returned = Some(<<accepted, reason>>)]

\* (InsertAttemptRetryAll: every exception is retried like OperationalError.)
InsertAttemptRetryAll(c, outcome) ==
    LET tried == [c EXCEPT !.executed = Append(@, outcome)]
        rolled == [tried EXCEPT !.inserted = {}, !.rollbacks = @ + 1]
    IN  IF outcome = "ok"
        THEN Returned([tried EXCEPT !.inserted = @ \cup {c.event_id}], TRUE, "ok")
        ELSE IF c.attempt = 2
             THEN Returned(rolled, FALSE, "db_insert_error")
             ELSE [rolled EXCEPT !.slept = @ + (c.attempt + 1),
                                 !.attempt = @ + 1]

\* One pass of for attempt in range(3).
InsertAttempt(c, outcome) ==
    LET tried == [c EXCEPT !.executed = Append(@, outcome)]
        rolled == [tried EXCEPT !.inserted = {}, !.rollbacks = @ + 1]
    IN  IF outcome = "ok"
        THEN Returned([tried EXCEPT !.inserted = @ \cup {c.event_id}], TRUE, "ok")
        ELSE IF outcome = "OperationalError"
        THEN IF c.attempt = 2
             THEN Returned(rolled, FALSE, "db_insert_error")
             ELSE [rolled EXCEPT !.slept = @ + (c.attempt + 1),
                                 !.attempt = @ + 1]
        ELSE IF Message(outcome) = "duplicate key value violates unique constraint"
        THEN Returned(rolled, FALSE, "duplicate_event_id")
        ELSE Returned(rolled, FALSE, "db_insert_error")

IngestFrame ==
    UNCHANGED <<alerts, notifications, clock, response, call, sends, attempts,
                lost, emailRaw, webhookRaw, det, runs, sessions, job, series,
                rules, workers, delivery>>

\* insert_event_raw(db, e) is called.
insert_event_raw(e) ==
    /\ ins.pc \in {"idle", "returned"}
    /\ ins.calls < MaxInserts
    /\ ins' = [IdleInsert EXCEPT !.pc = "execute", !.event_id = e,
                                 !.inserted = ins.inserted,
                                 !.calls = ins.calls + 1]
    /\ UNCHANGED events_raw
    /\ IngestFrame

\* db.execute(INSERT ...) and what follows it in the loop body.  The unique
\* index on event_id decides between success and the IntegrityError.
Execute(outcome) ==
    /\ ins.pc = "execute"
    /\ outcome = "ok" => ins.event_id \notin events_raw \cup ins.inserted
    /\ outcome = "IntegrityError" => ins.event_id \in events_raw \cup ins.inserted
    /\ ins' = InsertAttempt(ins, outcome)
    /\ UNCHANGED events_raw
    /\ IngestFrame

\* The caller's db.commit() after the call has returned.
IngestCommit ==
    /\ ins.pc = "returned"
    /\ ins.inserted # {}
    /\ events_raw' = events_raw \cup ins.inserted
    /\ ins' = [ins EXCEPT !.inserted = {}]
    /\ IngestFrame

InitIngest ==
    /\ alerts = <<>>
    /\ clock = 0
    /\ notifications = <<>>
    /\ response = NoResponse
    /\ call = IdleCall
    /\ sends = <<>>
    /\ attempts = <<>>
    /\ lost = <<>>
    /\ emailRaw = None
    /\ webhookRaw = None
    /\ det = IdleDet
    /\ runs = <<>>
    /\ events_raw \in SUBSET EventIds
    /\ ins = IdleInsert
    /\ NoLifecycle /\ NoJob /\ NoMetrics /\ NoPeers

NextIngest ==
    \/ \E e \in EventIds : insert_event_raw(e)
    \/ \E outcome \in Outcomes : Execute(outcome)
    \/ IngestCommit

\* The loop body is straight-line code: a call that has started an attempt
\* goes on to its end.
SpecIngest ==
    InitIngest /\ [][NextIngest]_vars /\ WF_vars(\E outcome \in Outcomes : Execute(outcome))

RetriedOnly(c) ==
    \A i \in 1..(Len(c.executed) - 1) : c.executed[i] = "OperationalError"

Failures(c) == Cardinality({i \in DOMAIN c.executed : c.executed[i] # "ok"})

InsertContract ==
    /\ Len(ins.executed) <= 3
    /\ RetriedOnly(ins)
    /\ ins.rollbacks = Failures(ins)
    /\ ins.pc = "execute" =>
          /\ Len(ins.executed) <= 2
          /\ \A i \in DOMAIN ins.executed : ins.executed[i] = "OperationalError"
          /\ ins.attempt = Len(ins.executed)
    /\ ins.pc = "returned" =>
          LET last == ins.executed[Len(ins.executed)]
          IN  /\ last = "ok" =>
                    /\ ins.returned = Some(<<TRUE, "ok">>)
                    /\ ins.event_id \in ins.inserted \cup events_raw
              /\ last = "OperationalError" =>
                    /\ Len(ins.executed) = 3
                    /\ ins.returned = Some(<<FALSE, "db_insert_error">>)
              /\ last = "IntegrityError" =>
                    ins.returned = Some(<<FALSE, "duplicate_event_id">>)
              /\ last = "Exception" =>
                    ins.returned = Some(<<FALSE, "db_insert_error">>)

\* C23: a call of insert_event_raw executes the INSERT at most three times,
\* a further attempt only after an OperationalError (each failure is rolled
\* back); it returns (True, "ok") on the first success, (False,
\* "db_insert_error") after the third OperationalError in a row, and at once
\* (False, "duplicate_event_id") on a unique violation or (False,
\* "db_insert_error") on any other exception; every call that has started
\* returns.
C23_BoundedRetry ==
    /\ []InsertContract
    /\ (ins.pc = "execute") ~> (ins.pc = "returned")

C23_Witness ==
    /\ ins.pc = "returned"
    /\ ins.executed = <<"OperationalError", "OperationalError", "OperationalError">>
    /\ ins.returned = Some(<<FALSE, "db_insert_error">>)
    /\ ins.slept = 3
    /\ ins.calls = 2

\* ------------------------------------------------ overlapping dispatch
\* send_email_notifications called again and again by workers whose calls
\* may overlap, each call in its own transaction (engine.begin()).  The
\* INSERT ... ON CONFLICT of _record_notification waits while another
\* transaction holds an uncommitted record of the same key and then updates
\* the committed row; the records of a call reach the table at its commit.
\* delivery fixes the limit of the calls and, per alert, whether its send
\* always succeeds ("ok"), always fails ("fail") or does either ("flaky").
\* Time is not advanced: the timestamps play no part here.
MaxWorkers == 2

Workers == 1..MaxWorkers

Kinds == {"ok", "fail", "flaky"}

WorkerFrame ==
    UNCHANGED <<alerts, clock, response, call, sends, attempts, lost, emailRaw,
                webhookRaw, det, runs, sessions, job, series, rules,
                events_raw, ins, delivery>>

\* with engine.begin() and the SELECT of the pending alerts.
WorkerStart(w) ==
    /\ workers[w].pc = "idle"
    /\ \E q \in _fetch_pending_alerts(notifications, "email",
                                      Join(ParseRecipients(emailRaw)),
                                      delivery.limit) :
          workers' = [workers EXCEPT
                         ![w] = BeginCall("email", <<Join(ParseRecipients(emailRaw))>>,
                                          delivery.limit, q, clock)]
    /\ UNCHANGED notifications
    /\ WorkerFrame

\* Another transaction holds an uncommitted record of the key.
RecordLocked(w, k) ==
    \E v \in Workers \ {w} :
        \E i \in DOMAIN workers[v].writes : Key(workers[v].writes[i]) = k

\* One pass of the loop body: the send and the record of its outcome.
WorkerAttempt(w, result) ==
    /\ workers[w].pc = "run"
    /\ workers[w].queue # <<>>
    /\ delivery.kind[Head(workers[w].queue)] = "ok" => result = "ok"
    /\ delivery.kind[Head(workers[w].queue)] = "fail" => result # "ok"
    /\ ~RecordLocked(w, <<Head(workers[w].queue), workers[w].channel,
                          workers[w].target>>)
    /\ workers' = [workers EXCEPT ![w] = LoopBody(workers[w], result)]
    /\ UNCHANGED notifications
    /\ WorkerFrame

\* The end of the with block.
WorkerCommit(w) ==
    /\ workers[w].pc = "run"
    /\ workers[w].queue = <<>>
    /\ notifications' = ApplyWrites(notifications, workers[w].writes)
    /\ workers' = [workers EXCEPT ![w] = IdleCall]
    /\ WorkerFrame

InitWorkers ==
    /\ alerts \in {t \in InitAlertTables :
                      \A i, j \in DOMAIN t : i # j => t[i].ts # t[j].ts}
    /\ clock = alerts[Len(alerts)].ts
    /\ notifications = <<>>
    /\ response = NoResponse
    /\ call = IdleCall
    /\ emailRaw = Some(<<"ops@eap">>)
    /\ webhookRaw = None
    /\ sends = <<>>
    /\ attempts = <<>>
    /\ lost = <<>>
    /\ det = IdleDet
    /\ runs = <<>>
    /\ workers = [w \in Workers |-> IdleCall]
    /\ delivery \in [kind : [DOMAIN alerts -> Kinds], limit : 1..MaxLimit]
    /\ NoLifecycle /\ NoJob /\ NoMetrics /\ NoIngest

NextWorkers ==
    \/ \E w \in Workers : WorkerStart(w)
    \/ \E w \in Workers, result \in Results : WorkerAttempt(w, result)
    \/ \E w \in Workers : WorkerCommit(w)

\* Every worker keeps calling and every call runs to its end.
SpecWorkers ==
    /\ InitWorkers
    /\ [][NextWorkers]_vars
    /\ \A w \in Workers :
          WF_vars(\/ WorkerStart(w)
                  \/ \E result \in Results : WorkerAttempt(w, result)
                  \/ WorkerCommit(w))

SentRows == {i \in DOMAIN notifications : notifications[i].status = "sent"}

StaysSent ==
    \A i \in SentRows :
        \E j \in DOMAIN notifications' :
            /\ Key(notifications'[j]) = Key(notifications[i])
            /\ notifications'[j].status = "sent"
            /\ notifications'[j].sent_at # None

\* C24: a notification record that is sent stays sent with its sent_at set,
\* whatever dispatch calls follow, overlapping calls that selected the alert
\* before either recorded included.
C24_SentIsFinal == [][StaysSent]_vars

WouldSucceed(a) == a \in DOMAIN alerts /\ delivery.kind[a] = "ok"

HasSentRecord(a) ==
    HasRow(notifications, a, "email", Join(ParseRecipients(emailRaw)), "sent")

\* C25: with dispatch calls repeated for ever under one limit, every alert
\* whose send succeeds eventually has a sent record, however many older
\* alerts fail on every attempt.
C25_NoStarvation ==
    \A a \in 1..MaxAlerts : WouldSucceed(a) ~> HasSentRecord(a)

\* With fewer failing alerts than the limit nothing is starved.
FailingBelowLimit ==
    Cardinality({a \in DOMAIN alerts : delivery.kind[a] # "ok"}) < delivery.limit

ServedBelowLimit ==
    \A a \in 1..MaxAlerts : (FailingBelowLimit /\ WouldSucceed(a)) ~> HasSentRecord(a)

Aborts == call.pc = "run" /\ call'.pc = "idle" /\ response'.code = 0
              /\ response'.op = "send_" \o call.channel \o "_raised"

Commits == call.pc = "run" /\ call'.pc = "idle"
               /\ response'.op = "send_" \o call.channel

AtomicRecords ==
    /\ notifications' # notifications =>
          Commits /\ notifications' = ApplyWrites(notifications, call.writes)
    /\ Commits => notifications' = ApplyWrites(notifications, call.writes)
    /\ Aborts => notifications' = notifications

\* A delivery whose record was lost is pending again: a fresh selection for
\* its destination holds it, unless the limit is filled by alerts not newer.
LostReselected ==
    (call.pc = "run" /\ call.tried = <<>>) =>
        \A k \in DOMAIN lost :
            (/\ lost[k] > 0
             /\ k[2] = call.channel /\ k[3] = call.target
             /\ ~HasRow(ApplyWrites(notifications, call.writes),
                        k[1], k[2], k[3], "sent")) =>
                \/ k[1] \in SeqToSet(call.selected)
                \/ /\ Len(call.selected) = call.limit
                   /\ \A i \in DOMAIN call.selected :
                         alerts[call.selected[i]].ts <= alerts[k[1]].ts

\* C26: the records of a dispatch call reach the table only at the call's
\* commit, all together; a call that aborts leaves the table as it was, the
\* sent records of the sends that had succeeded included, and every such
\* alert is selected again by the later calls for its destination.
C26_AtomicRecords == [][AtomicRecords]_vars /\ []LostReselected

C26_Witness ==
    \E k \in DOMAIN lost :
        /\ lost[k] = 1 /\ sends[k] = 1
        /\ ~HasRow(notifications, k[1], k[2], k[3], "sent")
        /\ call.pc = "run" /\ call.tried = <<>>
        /\ call.channel = k[2] /\ call.target = k[3]
        /\ k[1] \in SeqToSet(call.selected)

FieldsMatchStatus(a) ==
    /\ a.status \in {"OPEN", "ACK", "RESOLVED"}
    /\ a.status = "OPEN" =>
          /\ a.acked_by = None /\ a.acked_at = None
          /\ a.resolved_by = None /\ a.resolved_at = None
    /\ a.status = "ACK" => a.acked_by # None /\ a.acked_at # None
    /\ a.status = "RESOLVED" =>
          /\ a.acked_by # None /\ a.acked_at # None
          /\ a.resolved_by # None /\ a.resolved_at # None

\* C27: whatever acknowledges and resolves have been served, an OPEN alert
\* has acked_by, acked_at, resolved_by and resolved_at null, an ACK alert has
\* acked_by and acked_at set, and a RESOLVED alert has all four set.
C27_FieldsMatchStatus == \A i \in DOMAIN alerts : FieldsMatchStatus(alerts[i])

\* An alert resolved without having been acknowledged, beside an OPEN one.
C27_Witness ==
    /\ \E i \in DOMAIN alerts :
          /\ alerts[i].status = "RESOLVED"
          /\ alerts[i].acked_at = alerts[i].resolved_at
          /\ alerts[i].acked_by = alerts[i].resolved_by
    /\ \E i \in DOMAIN alerts : alerts[i].status = "OPEN"
    /\ response.op = "resolve" /\ response.code = 200

AllEqual(metric_name) ==
    \A d, e \in DatesBetween(metric_name, TargetDate - lookback_days, TargetDate) :
        series[metric_name].rows[d] = series[metric_name].rows[e]

\* Run r failed in the INSERT of the regime-shift alert of the metric.
RaisedOnRegimeAlert(r, metric_name) ==
    /\ runs[r].outcome = "failed"
    /\ runs[r].invoked # <<>>
    /\ runs[r].invoked[Len(runs[r].invoked)] = <<metric_name, "regime_shift">>

InitOps ==
    /\ InitDispatch
    /\ emailRaw = Some(<<"ops@eap">>)
    /\ webhookRaw = Some(<<"http://u1">>)

NextOps ==
    \/ \E id \in 1..(MaxAlerts + 1), actor \in Actors, header \in RoleHeaders :
          acknowledge_alert(id, actor, header)
    \/ \E id \in 1..(MaxAlerts + 1), actor \in Actors, header \in RoleHeaders :
          resolve_alert(id, actor, header)
    \/ UNCHANGED job /\ \E limit \in 1..MaxLimit : StartEmail(limit)
    \/ UNCHANGED job /\ \E limit \in 1..MaxLimit : StartWebhook(limit)
    \/ UNCHANGED job /\ \E result \in Results : Attempt(result)
    \/ UNCHANGED job /\ Commit

SpecOps == InitOps /\ [][NextOps]_vars

DispatchStep == call' # call \/ notifications' # notifications

LifecycleRequest == response' # response /\ response'.op \in {"ack", "resolve"}

Independent ==
    /\ DispatchStep => alerts' = alerts
    /\ alerts' # alerts => LifecycleRequest
    /\ LifecycleRequest =>
          /\ notifications' = notifications
          /\ call' = call
          /\ sends' = sends /\ attempts' = attempts

\* C29: a dispatch call selects among the alerts without a sent record for
\* the destination whatever their status (an ACK or RESOLVED alert is
\* selected like an OPEN one, oldest first within the limit); no step of a
\* dispatch call changes an alert, and no acknowledge or resolve changes a
\* notification record or a running call.
C29_Independent == []SelectionOldestFirst /\ [][Independent]_vars

\* An alert resolved before the call began has been selected and sent.
C29_Witness ==
    \E a \in DOMAIN alerts :
        /\ alerts[a].status = "RESOLVED"
        /\ call.pc = "run"
        /\ alerts[a].resolved_at # None
        /\ alerts[a].resolved_at[1] < call.now
        /\ \E i \in DOMAIN call.tried :
              call.tried[i] = [alert_id |-> a, result |-> "ok"]

\* The names under which the metrics job writes a value.
NamesWritten == DOMAIN run_metrics(<<>>, TargetDate, 12, Some(12))

\* Every name the metrics job writes has a value on each day of the window.
FullHistory ==
    \A name \in NamesWritten :
        /\ name \in DOMAIN series
        /\ \A d \in (TargetDate - lookback_days)..TargetDate :
              d \in DOMAIN series[name].rows

\* C30: once the metrics job has written its values on every day of the
\* lookback window, a detection run that commits has evaluated each of the
\* tracked metrics (none is skipped for lack of history).
C30_TrackedAreWritten ==
    \A r \in DOMAIN runs :
        (runs[r].outcome = "committed" /\ FullHistory) =>
            \A k \in DOMAIN Metrics :
                /\ Evaluated(r, Metrics[k])
                /\ Metrics[k] \notin runs[r].skipped

====
